---- MODULE Spec2Model ----
(***************************************************************************)
(* AutoGLM-TERMUX web core: the process supervisor (autoglm_process.py),   *)
(* the step interpreter and the interactive session registry               *)
(* (tasks_runner.py) and the cron scheduler (schedule.py).                 *)
(***************************************************************************)
EXTENDS Integers, Sequences, FiniteSets, TLC

(***************************************************************************)
(* Bounds of the model.                                                    *)
(***************************************************************************)
\* pids the operating system hands out; pid 1 is the one a pid file left by
\* an earlier run of the service may name, the others are spawned by start()
MaxPid == 3

\* lines written to the process's input stream by direct send_input calls
MaxStdin == 1
\* the sessions a registry explored from a filled state holds at first, and
\* the new_session calls made after the first state
PreCreated == 49
MaxNew == 2
\* send_interactive calls made
MaxSends == 1
\* the last instant of the clock, and the tick threads ever created
MaxTicks == 1
MaxThreads == 3
\* the longest log tail_log is called on and the largest max_bytes it is given
MaxLogLen == 4
MaxTailBytes == 3
\* the longest horizon next_run_ts is given, in seconds
MaxScan == 3
\* the longest template _format is given, in characters
MaxTemplateLen == 4
\* the sends made on the first session before the first state, each refused
\* by send_input for want of a handle
PriorExchanges == 10

\* the value of "no pid" (pid = None, _proc = None, no pid file)
NoPid == 0
\* the pid a pid file found at service start names
LegacyPid == 1

Pids == 1..MaxPid
MaxCreated == PreCreated + MaxNew
Tids == 1..MaxThreads
\* the callers of api_save_schedule, each makes one request
ApiCallers == {"a1", "a2"}
\* the ids uuid4 hands out
Uuids == <<"u1", "u2">>
\* the tasks the task storage holds
TaskIds == {"t1", "t2"}
\* what a run of a task comes to: every step succeeded, a step failed, the
\* interpreter raised, the task has no step
Outcomes == {"ok", "fail", "raise"}
\* the callers of send_interactive
Callers == {"c1", "c2"}
\* what the external process prints: some output, or an empty line
EngineBodies == {"out", ""}
Serials == {"d1", "d2"}

\* the sessions a send may name, and the texts it may carry
SendSids == {0, 1}
Texts == {"hi"}

VARIABLES
    pidFile,    \* content of autoglm.pid: NoPid when the file is absent
    os,         \* kernel's view of each pid: "free", "alive" or "zombie"
    proc,       \* _proc: pid of the held Popen handle, NoPid for None
    nextPid,    \* the pid the next Popen gets
    stopPc,     \* where stop() is: "idle" when no stop() holds the lock
    stopPid,    \* stop()'s local pid
    stdin,      \* the lines written to the process's input stream
    engineOut,  \* how many lines the external process has printed (it prints
                \* one for each line of input here)
    log,        \* autoglm.log, one entry per appended line
    ret,        \* what the last completed operation was given and returned
    sessions,        \* _sessions in insertion order: <<[sid, lines], ...>>
    sessionOffsets,  \* _session_offsets: sid -> offset into the log
    nextSid,         \* the next fresh session id
    pendingStarted,  \* new_session calls that have not yet logged (one at a
                     \* time here)
    sends,           \* the send_interactive call of each caller
    sendCount,       \* how many send_interactive calls were begun
    clock,           \* the current instant, in seconds
    store,           \* schedules.json: the persisted schedules
    tick,            \* the tick threads: tid -> its position and locals
    threadRef,       \* _thread: the tid last assigned, 0 for None
    stopEvent,       \* _stop_event
    nextTid,         \* the next thread to be created
    api,             \* the api_save_schedule request of each caller
    nextUuid,        \* the next fresh schedule id
    fires,           \* every firing so far: [id, sec, tid]
    run,             \* the run_task_by_id call: its position and locals
    invoked,         \* the steps run_step was called for, by their index
    call             \* the last call of a function that changes nothing: its
                     \* inputs and what it returned

supVars == <<pidFile, os, proc, nextPid, stopPc, stopPid, stdin, engineOut>>
sessVars == <<sessions, sessionOffsets, nextSid, pendingStarted, sends, sendCount>>
schedVars == <<clock, store, tick, threadRef, stopEvent, nextTid, api, nextUuid, fires>>
taskVars == <<run, invoked>>
fnVars == <<call>>
vars == <<supVars, log, ret, sessVars, schedVars, taskVars, fnVars>>

\* what the operations of one component leave alone
nonSup == <<sessVars, schedVars, taskVars, fnVars>>
nonSess == <<schedVars, taskVars, fnVars>>
nonSched == <<supVars, sessVars, taskVars, fnVars>>
nonTask == <<sessVars, schedVars, fnVars>>
nonFn == <<supVars, log, ret, sessVars, schedVars, taskVars>>

\* a line of the log or of a session: who wrote it, for which session, what
Line(src, sid, body) == [src |-> src, sid |-> sid, body |-> body]

\* the inputs of a start() call: the configured device id, the serials adb
\* reports online, whether the working directory exists, whether Popen works
StartArg(cfgDev, online, workdir, popenOk) ==
    [cfgDev |-> cfgDev, online |-> online, workdir |-> workdir, popenOk |-> popenOk]

NoArg == StartArg("", {}, FALSE, FALSE)

\* the uniform shape of a completed call: its inputs and its return value
NoRet ==
    [sid |-> 0, op |-> "none", ok |-> FALSE, msg |-> "", pid |-> NoPid, dev |-> "",
     arg |-> NoArg, out |-> <<>>]

RetA(op, ok, msg, pid, dev, arg) ==
    [NoRet EXCEPT !.op = op, !.ok = ok, !.msg = msg, !.pid = pid, !.dev = dev,
                  !.arg = arg]

Ret(op, ok, msg, pid, dev) == RetA(op, ok, msg, pid, dev, NoArg)

(***************************************************************************)
(* Process supervisor: autoglm_process.py                                  *)
(***************************************************************************)
\* _is_running: os.kill(pid, 0) succeeds for every pid the kernel still
\* knows, an exited child that was not yet waited for (a zombie) included
IsRunning(o, pid) == o[pid] \in {"alive", "zombie"}

\* Popen.poll() is not None: the child has exited; polling reaps it
Exited(o, h) == h # NoPid /\ o[h] = "zombie"

\* status(): the reported `running`, computed before _proc is polled
StatusRunning(pf, o) == pf # NoPid /\ IsRunning(o, pf)

\* status(): the reported pid
StatusPid(pf, o) == IF StatusRunning(pf, o) THEN pf ELSE NoPid

\* status(): the pid file afterwards, a stale marker is unlinked
StatusPidFile(pf, o) == IF pf # NoPid /\ ~IsRunning(o, pf) THEN NoPid ELSE pf

\* status(): _proc afterwards, a handle whose child has exited is dropped
StatusProc(o, h) == IF Exited(o, h) THEN NoPid ELSE h

\* status(): the kernel's table afterwards, poll() has reaped the child
StatusOs(o, h) == IF Exited(o, h) THEN [o EXCEPT ![h] = "free"] ELSE o

\* the lock of the supervisor is free (stop() is the one operation that
\* spans several steps here)
LockFree == stopPc = "idle"

Status ==
    /\ LockFree
    /\ pidFile' = StatusPidFile(pidFile, os)
    /\ proc' = StatusProc(os, proc)
    /\ os' = StatusOs(os, proc)
    /\ ret' = Ret("status", StatusRunning(pidFile, os), "", StatusPid(pidFile, os), "")
    /\ UNCHANGED <<nextPid, log, stopPc, stopPid, stdin, engineOut, nonSup>>

\* start(): the device the process is started for; "" when none is passed
ResolvedDevice(cfgDev, online) ==
    IF cfgDev # "" THEN cfgDev
    ELSE IF Cardinality(online) = 1 THEN CHOOSE d \in online : TRUE
    ELSE ""

\* start() without its check of the running process
StartRefusalNoCheck(pf, o, workdir, cfgDev, online) ==
    IF ~workdir THEN "no_workdir"
    ELSE IF cfgDev = "" /\ Cardinality(online) > 1 THEN "ambiguous_device"
    ELSE IF cfgDev = "" /\ Cardinality(online) = 0 THEN "no_device"
    ELSE ""

\* start() that goes on when several devices are online
StartRefusalGuess(pf, o, workdir, cfgDev, online) ==
    IF StatusRunning(pf, o) THEN "already_running"
    ELSE IF ~workdir THEN "no_workdir"
    ELSE IF cfgDev = "" /\ Cardinality(online) = 0 THEN "no_device"
    ELSE ""

\* start(): why it refuses, "" when it goes on to spawn
StartRefusal(pf, o, workdir, cfgDev, online) ==
    IF StatusRunning(pf, o) THEN "already_running"
    ELSE IF ~workdir THEN "no_workdir"
    ELSE IF cfgDev = "" /\ Cardinality(online) > 1 THEN "ambiguous_device"
    ELSE IF cfgDev = "" /\ Cardinality(online) = 0 THEN "no_device"
    ELSE ""

\* start(): what it answers; popenOk is whether Popen goes through
StartMsg(pf, o, workdir, cfgDev, online, popenOk) ==
    IF StartRefusal(pf, o, workdir, cfgDev, online) # ""
    THEN StartRefusal(pf, o, workdir, cfgDev, online)
    ELSE IF ~popenOk THEN "spawn_failed"
    ELSE "started"

\* start(): the log afterwards, a line break and the marker of the start
StartLog(lg, msg) ==
    IF msg = "started"
    THEN lg \o <<Line("web", 0, ""), Line("web", 0, "started")>>
    ELSE lg

\* start() as a step of an operation: status(), then the child is spawned,
\* held and named in the pid file
DoStart(cfgDev, online, workdir, popenOk) ==
    IF StartMsg(pidFile, os, workdir, cfgDev, online, popenOk) # "started"
    THEN /\ pidFile' = StatusPidFile(pidFile, os)
         /\ proc' = StatusProc(os, proc)
         /\ os' = StatusOs(os, proc)
         /\ UNCHANGED nextPid
    ELSE /\ nextPid <= MaxPid
         /\ os' = [StatusOs(os, proc) EXCEPT ![nextPid] = "alive"]
         /\ proc' = nextPid
         /\ pidFile' = nextPid
         /\ nextPid' = nextPid + 1

Start(cfgDev, online, workdir, popenOk) ==
    /\ LockFree
    /\ DoStart(cfgDev, online, workdir, popenOk)
    /\ LET msg == StartMsg(pidFile, os, workdir, cfgDev, online, popenOk)
           arg == StartArg(cfgDev, online, workdir, popenOk)
       IN  /\ log' = StartLog(log, msg)
           /\ ret' = RetA("start", msg = "started", msg,
                          IF msg = "started" THEN nextPid
                          ELSE IF msg = "spawn_failed" THEN NoPid
                          ELSE StatusPid(pidFile, os),
                          IF StartRefusal(pidFile, os, workdir, cfgDev, online) = ""
                          THEN ResolvedDevice(cfgDev, online) ELSE "",
                          arg)
    /\ UNCHANGED <<stopPc, stopPid, stdin, engineOut, nonSup>>

\* stop() as a step of an operation: status() and the check of the recorded
\* pid
DoStopBegin ==
    /\ LockFree
    /\ pidFile' = StatusPidFile(pidFile, os)
    /\ proc' = StatusProc(os, proc)
    /\ os' = StatusOs(os, proc)
    /\ IF StatusPid(pidFile, os) = NoPid
       THEN /\ ret' = Ret("stop", FALSE, "nothing_to_stop", NoPid, "")
            /\ UNCHANGED <<stopPc, stopPid>>
       ELSE /\ stopPc' = "term"
            /\ stopPid' = StatusPid(pidFile, os)
            /\ ret' = NoRet

StopBegin ==
    /\ DoStopBegin
    /\ UNCHANGED <<nextPid, log, stdin, engineOut, nonSup>>

\* stop(): os.kill(pid, SIGTERM); it raises when the pid is gone, and stop()
\* returns at once
StopTerm ==
    /\ stopPc = "term"
    /\ IF os[stopPid] = "free"
       THEN /\ stopPc' = "idle"
            /\ stopPid' = NoPid
            /\ ret' = Ret("stop", FALSE, "stop_failed", stopPid, "")
       ELSE /\ stopPc' = "wait"
            /\ UNCHANGED <<stopPid, ret>>
    /\ UNCHANGED <<pidFile, os, proc, nextPid, log, stdin, engineOut, nonSup>>

\* stop(): the polling loop ends, because the pid is gone or because the
\* thirty polls are used up
StopWait ==
    /\ stopPc = "wait"
    /\ stopPc' = IF IsRunning(os, stopPid) THEN "kill" ELSE "cleanup"
    /\ UNCHANGED <<pidFile, os, proc, nextPid, log, stopPid, stdin, engineOut, ret, nonSup>>

\* what a delivered SIGKILL leaves of a pid: a child that is still held
\* becomes a zombie, any other process is gone
Killed(o, h, pid) ==
    IF o[pid] = "alive"
    THEN [o EXCEPT ![pid] = IF pid = h THEN "zombie" ELSE "free"]
    ELSE o

\* stop(): os.kill(pid, SIGKILL), an error is swallowed
StopKill ==
    /\ stopPc = "kill"
    /\ os' = Killed(os, proc, stopPid)
    /\ stopPc' = "cleanup"
    /\ UNCHANGED <<pidFile, proc, nextPid, log, stopPid, stdin, engineOut, ret, nonSup>>

\* stop(): unlink the pid file, close stdin, _proc = None (the dropped
\* handle's finalizer reaps an exited child)
StopCleanup ==
    /\ stopPc = "cleanup"
    /\ pidFile' = NoPid
    /\ proc' = NoPid
    /\ os' = StatusOs(os, proc)
    /\ stopPc' = "idle"
    /\ stopPid' = NoPid
    /\ ret' = Ret("stop", TRUE, "stopped", stopPid, "")
    /\ UNCHANGED <<nextPid, log, stdin, engineOut, nonSup>>

\* the external process exits on its own (or after a signal): a held child
\* stays a zombie until it is polled
ProcExit(p) ==
    /\ os[p] = "alive"
    /\ os' = [os EXCEPT ![p] = IF p = proc THEN "zombie" ELSE "free"]
    /\ ret' = NoRet
    /\ UNCHANGED <<pidFile, proc, nextPid, log, stopPc, stopPid, stdin, engineOut, nonSup>>

\* status() as a step of an operation
DoStatus ==
    /\ pidFile' = StatusPidFile(pidFile, os)
    /\ proc' = StatusProc(os, proc)
    /\ os' = StatusOs(os, proc)

\* tail_log: default of max_bytes
TailMaxBytes == 32000

Max(a, b) == IF a > b THEN a ELSE b
Min(a, b) == IF a < b THEN a ELSE b

\* tail_log that reads from the start of the file on a stale offset
TailStartFromZero(size, offset, maxBytes) ==
    IF offset < 0 \/ offset > size THEN 0 ELSE offset

\* tail_log: where the read starts, a stale offset is clamped
TailStart(size, offset, maxBytes) ==
    IF offset < 0 \/ offset > size THEN Max(0, size - maxBytes) ELSE offset

\* tail_log: new_offset, the read takes at most maxBytes
TailEnd(size, offset, maxBytes) ==
    Min(size, TailStart(size, offset, maxBytes) + maxBytes)

\* tail_log: the lines read, each with its position in the log
TailLines(lg, offset, maxBytes) ==
    LET from == TailStart(Len(lg), offset, maxBytes)
        to == TailEnd(Len(lg), offset, maxBytes)
    IN  [i \in 1..(to - from) |-> [kind |-> "out", text |-> lg[from + i].body, pos |-> from + i]]

\* no call made yet
NoCall == [fn |-> "none"]

\* tail_log(offset, max_bytes) on the log as it is
TailLog(offset, maxBytes) ==
    /\ call' = [size |-> Len(log), offset |-> offset, maxBytes |-> maxBytes,
                fn |-> "tail_log",
                start |-> TailStart(Len(log), offset, maxBytes),
                newOffset |-> TailEnd(Len(log), offset, maxBytes),
                data |-> TailLines(log, offset, maxBytes)]
    /\ UNCHANGED nonFn

\* send_input without its test of the handle
SendInputResultAnyHandle(pf, o, h, writeOk) ==
    IF ~StatusRunning(pf, o) THEN "not_running"
    ELSE IF ~writeOk THEN "send_failed"
    ELSE "sent"

\* send_input: what it answers; writeOk is whether the write to the pipe
\* goes through
SendInputResult(pf, o, h, writeOk) ==
    IF ~StatusRunning(pf, o) THEN "not_running"
    ELSE IF StatusProc(o, h) = NoPid THEN "handle_unavailable"
    ELSE IF ~writeOk THEN "send_failed"
    ELSE "sent"

\* send_input as a step of an operation
DoSendInput(text, writeOk) ==
    /\ LockFree
    /\ DoStatus
    /\ stdin' = IF SendInputResult(pidFile, os, proc, writeOk) = "sent"
                THEN Append(stdin, text) ELSE stdin
    /\ UNCHANGED <<nextPid, stopPc, stopPid, engineOut>>

SendInput(text, writeOk) ==
    /\ Len(stdin) < MaxStdin
    /\ DoSendInput(text, writeOk)
    /\ LET r == SendInputResult(pidFile, os, proc, writeOk)
       IN  ret' = Ret("send_input", r = "sent", r, NoPid, "")
    /\ UNCHANGED <<log, nonSup>>

\* the external process prints a line; its output is redirected to the log
EngineOutput(body) ==
    /\ engineOut < Len(stdin)
    /\ \E p \in Pids : os[p] = "alive"
    /\ engineOut' = engineOut + 1
    /\ log' = Append(log, Line("engine", 0, body))
    /\ ret' = NoRet
    /\ UNCHANGED <<pidFile, os, proc, nextPid, stopPc, stopPid, stdin, nonSup>>

(***************************************************************************)
(* Process supervisor: properties                                          *)
(***************************************************************************)
\* the process the pid file names is running: it has not exited
SupervisedAlive == pidFile # NoPid /\ os[pidFile] = "alive"

\* C7: a start() called while the supervised process is running returns
\* (false, "already running") and changes nothing: no signal reaches the
\* process, no second process is spawned, the pid file, the handle and the
\* log are as before
StartRefusesWhenRunning ==
    [][(ret'.op = "start" /\ SupervisedAlive)
        => /\ ~ret'.ok
           /\ ret'.msg = "already_running"
           /\ ret'.pid = pidFile
           /\ os' = os
           /\ nextPid' = nextPid
           /\ pidFile' = pidFile
           /\ proc' = proc
           /\ log' = log
           /\ stdin' = stdin]_vars

\* C7, its case: a start() was refused while the child this service spawned
\* is alive and held
StartRefusedWitness ==
    /\ ret.op = "start"
    /\ ret.msg = "already_running"
    /\ SupervisedAlive
    /\ proc = pidFile

\* C8 as stated: when stop() returns after it found a pid on record, the pid
\* file is removed and the handle cleared, whether the signal was sent or not
StopAlwaysCleans ==
    (ret.op = "stop" /\ ret.msg # "nothing_to_stop")
        => (pidFile = NoPid /\ proc = NoPid)

\* C9 as stated: status() reports running only for a marker whose process is
\* alive; when the process is not alive the marker is removed and the status
\* is (false, None); a reported pid is the marker's pid
StatusReconciles ==
    ret.op = "status"
        => /\ ret.ok => (ret.pid = pidFile /\ ret.pid # NoPid)
           /\ ~ret.ok => (ret.pid = NoPid /\ pidFile = NoPid)
           /\ ret.ok => os[ret.pid] = "alive"

\* no supervised pid is on record: there is no pid file, or the process the
\* pid file names is not alive
NoPidOnRecord == pidFile = NoPid \/ os[pidFile] # "alive"

\* stop() returned the message of nothing to stop, went on to no signal,
\* touched no live process and no pid file is left
StopIsNoOp ==
    /\ ret' = Ret("stop", FALSE, "nothing_to_stop", NoPid, "")
    /\ stopPc' = "idle"
    /\ pidFile' = NoPid
    /\ \A p \in Pids : os[p] = "alive" => os'[p] = "alive"

\* C27: stop() called with no supervised pid on record is a no-op with a
\* message: no signal is sent, a running process is left alone, and no pid
\* file exists afterwards
StopWithoutPidIsNoOp == [][(StopBegin /\ NoPidOnRecord) => StopIsNoOp]_vars

\* stop() was called on the pid file of a process the kernel has forgotten
\* and answered that there is nothing to stop
StopNothingToStopWitness ==
    /\ ret = Ret("stop", FALSE, "nothing_to_stop", NoPid, "")
    /\ pidFile = NoPid
    /\ os[LegacyPid] = "free"
    /\ nextPid = LegacyPid + 1

\* the processes alive that a start() of this service or of an earlier run
\* of it has spawned
AliveSpawned == {p \in Pids : os[p] = "alive"}

\* C33: under any interleaving of start, stop, status and send_input calls
\* and of the interpreter's own start, at most one spawned process is alive
AtMostOneProcess == Cardinality(AliveSpawned) <= 1

\* the interpreter has started a process of its own after an earlier one was
\* stopped, and that one process is alive
SecondProcessAloneWitness ==
    /\ nextPid > LegacyPid + 2
    /\ Cardinality(AliveSpawned) = 1
    /\ os[nextPid - 1] = "alive"
    /\ run.pc = "send"
    /\ run.stage = "heal"

\* C10: a start() with no configured device that gets as far as choosing the
\* device: one serial online is the device used, several or none fail with
\* the message of that case, spawn nothing and leave no pid file
StartResolvesDevice ==
    [][(/\ ret'.op = "start"
        /\ ret'.arg.cfgDev = ""
        /\ ret'.msg \notin {"already_running", "no_workdir"})
        => LET n == Cardinality(ret'.arg.online)
           IN  /\ n = 1 => /\ ret'.dev \in ret'.arg.online
                           /\ ret'.ok = ret'.arg.popenOk
                           /\ ret'.ok => (os'[ret'.pid] = "alive" /\ pidFile' = ret'.pid)
               /\ n > 1 => ret'.msg = "ambiguous_device"
               /\ n = 0 => ret'.msg = "no_device"
               /\ n # 1 => /\ ~ret'.ok
                           /\ nextPid' = nextPid
                           /\ \A p \in Pids : os'[p] = "alive" => os[p] = "alive"
                           /\ pidFile' = NoPid
                           /\ proc' = NoPid]_vars


\* C10, its case: a start() with no device configured was refused because
\* both serials were online
StartAmbiguousWitness ==
    ret.op = "start" /\ ret.msg = "ambiguous_device" /\ ret.arg.online = Serials


\* a live handle is held: _proc is set and its child has not exited
LiveHandle == proc # NoPid /\ os[proc] = "alive"

\* C12: send_input writes to the process only when status() reports running
\* and a live handle is held; when the process of the pid file is alive but
\* the handle is missing or dead it fails with the "handle unavailable"
\* message, which is not the "not running" one, and writes nothing
SendInputNeedsHandle ==
    [][ret'.op = "send_input"
        => /\ stdin' # stdin => (StatusRunning(pidFile, os) /\ LiveHandle /\ ret'.ok)
           /\ ~ret'.ok => stdin' = stdin
           /\ ~StatusRunning(pidFile, os) => ret'.msg = "not_running"
           /\ (SupervisedAlive /\ ~LiveHandle)
                 => /\ ~ret'.ok
                    /\ ret'.msg = "handle_unavailable"
                    /\ stdin' = stdin]_vars

\* C12, its case: the process a pid file of an earlier run names is alive,
\* no handle is held, and send_input has answered "handle unavailable"
SendInputNoHandleWitness ==
    /\ ret.op = "send_input"
    /\ ret.msg = "handle_unavailable"
    /\ ~ret.ok
    /\ SupervisedAlive
    /\ proc = NoPid
    /\ stdin = <<>>

\* the offset of a tail_log call is stale: negative or beyond the file
StaleOffset == call.offset < 0 \/ call.offset > call.size

\* what every tail_log call returns: the bytes from the effective start on,
\* at most max_bytes of them, and the offset just behind them
TailReturnsWindow ==
    /\ call.newOffset = call.start + Len(call.data)
    /\ Len(call.data) <= call.maxBytes
    /\ call.newOffset <= call.size
    /\ \A i \in DOMAIN call.data :
          call.data[i].pos = call.start + i /\ call.data[i].text = log[call.start + i].body
    /\ ~StaleOffset => call.start = call.offset
    /\ StaleOffset
          => /\ call.start = (IF call.size > call.maxBytes
                              THEN call.size - call.maxBytes ELSE 0)
             /\ call.newOffset = call.size

\* C11 as stated: on a stale offset tail_log reads from max(0, size -
\* maxBytes) and returns a non-empty window that ends at the end of the
\* file; every call returns at most maxBytes bytes and the start offset plus
\* their number
TailStaleWindowNonEmpty ==
    call.fn = "tail_log"
        => /\ TailReturnsWindow
           /\ StaleOffset => call.data # <<>>

\* C11, amended: as stated, but the window of a stale offset is non-empty
\* only when the file holds something; on an empty or absent file it is
\* empty and the offset returned is 0
TailStaleWindow ==
    call.fn = "tail_log"
        => /\ TailReturnsWindow
           /\ (StaleOffset /\ call.size > 0) => call.data # <<>>
           /\ (StaleOffset /\ call.size = 0) => (call.data = <<>> /\ call.newOffset = 0)

\* C11, its case: an offset beyond a file longer than max_bytes gave the
\* last max_bytes bytes of the file
TailStaleWitness ==
    /\ call.fn = "tail_log"
    /\ call.offset > call.size
    /\ call.size > call.maxBytes
    /\ call.start = call.size - call.maxBytes
    /\ Len(call.data) = call.maxBytes
    /\ call.newOffset = call.size

(***************************************************************************)
(* Interactive session registry: tasks_runner.py                           *)
(***************************************************************************)
MAX_SESSIONS == 50

\* a session as the registry holds it: its id and its lines; `born` is not
\* kept by the program, it records for the properties the size the log
\* had when the session was created
\* the ids held
Held(sess) == {sess[i].sid : i \in 1..Len(sess)}

\* the lines of a held session
LinesOf(sess, sid) == (CHOOSE i \in 1..Len(sess) : sess[i].sid = sid)

\* new_session that evicts the first session nobody has sent to yet
SessionsInsertLru(sess, sid) ==
    LET new == [sid |-> sid, lines |-> <<>>, born |-> Len(log)]
        unused == {i \in 1..Len(sess) : sess[i].lines = <<>>}
        drop == IF unused = {} THEN 1 ELSE CHOOSE i \in unused : \A j \in unused : i <= j
    IN  IF Len(sess) >= MAX_SESSIONS
        THEN Append([i \in 1..(Len(sess) - 1) |-> IF i < drop THEN sess[i] ELSE sess[i + 1]], new)
        ELSE Append(sess, new)

\* new_session: _sessions after the insertion, the first key is deleted
\* when the registry is full
SessionsInsert(sess, sid) ==
    LET new == [sid |-> sid, lines |-> <<>>, born |-> Len(log)]
    IN  IF Len(sess) >= MAX_SESSIONS THEN Append(Tail(sess), new)
        ELSE Append(sess, new)

OffsetsInsertFromZero(sess, offs, sid, size) ==
    LET keep == IF Len(sess) >= MAX_SESSIONS
                THEN DOMAIN offs \ {Head(sess).sid} ELSE DOMAIN offs
    IN  [k \in keep \cup {sid} |-> IF k = sid THEN 0 ELSE offs[k]]

\* new_session: _session_offsets after the insertion
OffsetsInsert(sess, offs, sid, size) ==
    LET keep == IF Len(sess) >= MAX_SESSIONS
                THEN DOMAIN offs \ {Head(sess).sid} ELSE DOMAIN offs
    IN  [k \in keep \cup {sid} |-> IF k = sid THEN size ELSE offs[k]]

\* new_session, under _sessions_lock
NewSessionRegister ==
    /\ nextSid <= MaxNew \/ (nextSid > PreCreated /\ nextSid <= MaxCreated)
    /\ pendingStarted = {}
    /\ sessions' = SessionsInsert(sessions, nextSid)
    /\ sessionOffsets' = OffsetsInsert(sessions, sessionOffsets, nextSid, Len(log))
    /\ nextSid' = nextSid + 1
    /\ pendingStarted' = pendingStarted \cup {nextSid}
    /\ ret' = NoRet
    /\ UNCHANGED <<supVars, log, sends, sendCount>>
    /\ UNCHANGED nonSess

\* new_session: the "started" line, then the id is returned
NewSessionLog(sid) ==
    /\ sid \in pendingStarted
    /\ pendingStarted' = pendingStarted \ {sid}
    /\ log' = Append(log, Line("session", sid, "started"))
    /\ ret' = [NoRet EXCEPT !.op = "new_session", !.ok = TRUE, !.sid = sid]
    /\ UNCHANGED <<supVars, sessions, sessionOffsets, nextSid, sends, sendCount>>
    /\ UNCHANGED nonSess

\* a call of send_interactive: its position, its arguments, the offset it
\* reads from and the lines collected; `wrote` is not kept by the program, it
\* records for the properties the size the log had when the input was
\* written to the process
IdleSend ==
    [sid |-> 0, out |-> <<>>, offset |-> 0, text |-> "", pc |-> "idle", wrote |-> 0]

\* a sequence without the lines whose text is blank
RECURSIVE NonBlank(_)
NonBlank(ls) ==
    IF ls = <<>> THEN <<>>
    ELSE IF Head(ls).text = "" THEN NonBlank(Tail(ls))
    ELSE <<Head(ls)>> \o NonBlank(Tail(ls))

LastNHead(q, n) == IF Len(q) <= n THEN q ELSE SubSeq(q, 1, n)

\* the last n elements of a sequence
LastN(q, n) == IF Len(q) <= n THEN q ELSE SubSeq(q, Len(q) - n + 1, Len(q))

\* send_interactive: the session is looked up and its offset read
SendBegin(c, sid, text) ==
    /\ sends[c].pc = "idle"
    /\ sendCount < MaxSends
    /\ sendCount' = sendCount + 1
    /\ IF sid \notin Held(sessions)
       THEN /\ ret' = [NoRet EXCEPT !.op = "send", !.msg = "unknown_session", !.sid = sid]
            /\ UNCHANGED sends
       ELSE /\ sends' = [sends EXCEPT ![c] =
                            [sid |-> sid, out |-> <<>>,
                             offset |-> IF sid \in DOMAIN sessionOffsets
                                        THEN sessionOffsets[sid] ELSE 0,
                             text |-> text, pc |-> "status", wrote |-> 0]]
            /\ ret' = NoRet
    /\ UNCHANGED <<supVars, log, sessions, sessionOffsets, nextSid, pendingStarted>>
    /\ UNCHANGED nonSess

\* send_interactive: status(), the call fails when the process is not running
SendStatus(c) ==
    /\ sends[c].pc = "status"
    /\ LockFree
    /\ DoStatus
    /\ IF StatusRunning(pidFile, os)
       THEN /\ sends' = [sends EXCEPT ![c].pc = "input"]
            /\ ret' = NoRet
       ELSE /\ sends' = [sends EXCEPT ![c] = IdleSend]
            /\ ret' = [NoRet EXCEPT !.op = "send", !.msg = "not_running", !.sid = sends[c].sid]
    /\ UNCHANGED <<nextPid, stopPc, stopPid, stdin, engineOut, log>>
    /\ UNCHANGED <<sessions, sessionOffsets, nextSid, pendingStarted, sendCount>>
    /\ UNCHANGED nonSess

\* send_interactive: send_input; a failure becomes the one output line
SendWrite(c, writeOk) ==
    /\ sends[c].pc = "input"
    /\ DoSendInput(sends[c].text, writeOk)
    /\ LET r == SendInputResult(pidFile, os, proc, writeOk)
       IN  sends' = IF r = "sent"
                    THEN [sends EXCEPT ![c].pc = "poll", ![c].wrote = Len(log)]
                    ELSE [sends EXCEPT ![c].pc = "commit",
                                       ![c].out = <<[kind |-> "fail", text |-> r, pos |-> 0]>>]
    /\ ret' = NoRet
    /\ UNCHANGED <<log, sessions, sessionOffsets, nextSid, pendingStarted, sendCount>>
    /\ UNCHANGED nonSess

\* the placeholder reported when no output arrived
NoOutputYet == <<[kind |-> "none", text |-> "no new output yet", pos |-> 0]>>

\* send_interactive: what is reported of the collected lines
OutputLines(collected) ==
    IF NonBlank(collected) = <<>> THEN NoOutputYet ELSE NonBlank(collected)

\* send_interactive: a poll of the log tail that reads something; a chunk
\* with a non-blank line ends the polling
SendPoll(c) ==
    /\ sends[c].pc = "poll"
    /\ LET chunk == TailLines(log, sends[c].offset, TailMaxBytes)
           all == sends[c].out \o chunk
       IN  /\ chunk # <<>>
           /\ sends' = [sends EXCEPT
                  ![c].offset = TailEnd(Len(log), sends[c].offset, TailMaxBytes),
                  ![c].out = IF NonBlank(chunk) # <<>> THEN OutputLines(all) ELSE all,
                  ![c].pc = IF NonBlank(chunk) # <<>> THEN "commit" ELSE "poll"]
    /\ ret' = NoRet
    /\ UNCHANGED <<supVars, log, sessions, sessionOffsets, nextSid, pendingStarted, sendCount>>
    /\ UNCHANGED nonSess

\* send_interactive: the polls are used up and the last one read nothing
SendGiveUp(c) ==
    /\ sends[c].pc = "poll"
    /\ TailLines(log, sends[c].offset, TailMaxBytes) = <<>>
    /\ sends' = [sends EXCEPT
           ![c].offset = TailEnd(Len(log), sends[c].offset, TailMaxBytes),
           ![c].out = OutputLines(sends[c].out),
           ![c].pc = "commit"]
    /\ ret' = NoRet
    /\ UNCHANGED <<supVars, log, sessions, sessionOffsets, nextSid, pendingStarted, sendCount>>
    /\ UNCHANGED nonSess

\* _sessions with lines appended to one session
SessionsAppend(sess, sid, ls) ==
    [i \in 1..Len(sess) |->
        IF sess[i].sid = sid THEN [sess[i] EXCEPT !.lines = @ \o ls] ELSE sess[i]]

\* send_interactive that stores without looking the session up again
CommitRefusedNever(sess, sid) == FALSE

\* send_interactive: `if sid not in _sessions` before the offset and the
\* lines are stored
CommitRefused(sess, sid) == sid \notin Held(sess)

\* send_interactive: under the lock again, the offset and the lines are
\* stored unless the session is gone
SendCommit(c) ==
    /\ sends[c].pc = "commit"
    /\ IF CommitRefused(sessions, sends[c].sid)
       THEN /\ sends' = [sends EXCEPT ![c] = IdleSend]
            /\ ret' = [NoRet EXCEPT !.op = "send", !.msg = "unknown_session", !.sid = sends[c].sid]
            /\ UNCHANGED <<sessions, sessionOffsets>>
       ELSE /\ sessionOffsets' =
                  [k \in DOMAIN sessionOffsets \cup {sends[c].sid} |->
                      IF k = sends[c].sid THEN sends[c].offset ELSE sessionOffsets[k]]
            /\ sessions' = SessionsAppend(sessions, sends[c].sid,
                  <<[kind |-> "in", text |-> sends[c].text, pos |-> 0]>> \o sends[c].out)
            /\ sends' = [sends EXCEPT ![c].pc = "log"]
            /\ ret' = NoRet
    /\ UNCHANGED <<supVars, log, nextSid, pendingStarted, sendCount>>
    /\ UNCHANGED nonSess

\* send_interactive: the input and its output lines are written to the log
SendLog(c) ==
    /\ sends[c].pc = "log"
    /\ log' = log \o <<Line("session", sends[c].sid, sends[c].text)>>
                  \o [i \in 1..Len(sends[c].out) |->
                        Line("session_output", sends[c].sid, sends[c].out[i].text)]
    /\ sends' = [sends EXCEPT ![c].pc = "return"]
    /\ ret' = NoRet
    /\ UNCHANGED <<supVars, sessions, sessionOffsets, nextSid, pendingStarted, sendCount>>
    /\ UNCHANGED nonSess

\* send_interactive: the last 20 lines of the session are returned
SendReturn(c) ==
    /\ sends[c].pc = "return"
    /\ sends' = [sends EXCEPT ![c] = IdleSend]
    /\ ret' = [NoRet EXCEPT !.op = "send", !.ok = TRUE, !.sid = sends[c].sid,
                  !.out = IF sends[c].sid \in Held(sessions)
                          THEN LastN(sessions[LinesOf(sessions, sends[c].sid)].lines, 20)
                          ELSE <<>>]
    /\ UNCHANGED <<supVars, log, sessions, sessionOffsets, nextSid, pendingStarted, sendCount>>
    /\ UNCHANGED nonSess

\* the log file is truncated or rotated away by something outside the service
LogTruncated ==
    /\ log # <<>>
    /\ log' = <<>>
    /\ UNCHANGED <<supVars, ret, sessVars>>
    /\ UNCHANGED nonSess

\* get_interactive_log: the last 50 lines, nothing for an unknown session
GetLog(sid) ==
    /\ ret' = [NoRet EXCEPT !.op = "get_log", !.ok = sid \in Held(sessions), !.sid = sid,
                  !.out = IF sid \in Held(sessions)
                          THEN LastN(sessions[LinesOf(sessions, sid)].lines, 50)
                          ELSE <<>>]
    /\ UNCHANGED <<supVars, log, sessVars>>
    /\ UNCHANGED nonSess

(***************************************************************************)
(* Interactive session registry: properties                                *)
(***************************************************************************)
\* C6: the registry never holds more than MAX_SESSIONS sessions, and the
\* sessions held are exactly the most recently created ones, in creation
\* order: a full registry loses its first-created session to a new one,
\* whatever sessions send and get_log have used since
SessionsFifo ==
    /\ Len(sessions) <= MAX_SESSIONS
    /\ Len(sessions) = Min(nextSid - 1, MAX_SESSIONS)
    /\ \A i \in 1..Len(sessions) : sessions[i].sid = nextSid - 1 - Len(sessions) + i

\* C6, its case: session 1 was sent to after the registry had filled up, so
\* it was the most recently used session, and the next new_session evicted it
SessionsEvictWitness ==
    /\ nextSid = MAX_SESSIONS + 2
    /\ Head(sessions).sid = 2
    /\ \E i, j \in DOMAIN log :
          /\ i < j
          /\ log[i] = Line("session", MAX_SESSIONS, "started")
          /\ log[j] = Line("session", 1, "hi")

\* the lines held for a session, none when it is not held
LinesHeld(sid) ==
    IF sid \in Held(sessions) THEN sessions[LinesOf(sessions, sid)].lines ELSE <<>>

\* a step at which a send ends with a failure
SendFails == ret' # ret /\ ret'.op = "send" /\ ~ret'.ok

\* a step at which a send returns lines
SendReturns == ret' # ret /\ ret'.op = "send" /\ ret'.ok

\* a failing send changes neither the input stream of the process nor the
\* registry
FailedSendChangesNothing ==
    SendFails => /\ stdin' = stdin
                 /\ sessions' = sessions
                 /\ sessionOffsets' = sessionOffsets

\* what a send returns is the end of the lines of its session, 20 at most
ReturnsLastTwenty(sid) ==
    /\ Len(ret'.out) = Min(20, Len(LinesHeld(sid)))
    /\ \A i \in DOMAIN ret'.out :
          ret'.out[i] = LinesHeld(sid)[Len(LinesHeld(sid)) - Len(ret'.out) + i]

\* when the polling of a send ends its output is the placeholder exactly when
\* every line it read from the log was blank
PlaceholderWhenNothingNew ==
    \A c \in Callers :
        (sends[c].pc = "poll" /\ sends'[c].pc = "commit")
            => /\ (sends'[c].out = NoOutputYet)
                    = (\A k \in (sends[c].offset - Len(sends[c].out) + 1)..sends'[c].offset :
                          log[k].body = "")
               /\ \A i \in DOMAIN sends'[c].out : sends'[c].out[i].text # ""

SendEvictedMidwayWitness ==
    /\ ret.op = "send"
    /\ ~ret.ok
    /\ ret.msg = "unknown_session"
    /\ ret.sid = 1
    /\ stdin # <<>>
    /\ nextSid = MaxCreated + 1

\* _sessions and _session_offsets hold the same keys
MapsShareKeys == Held(sessions) = DOMAIN sessionOffsets

\* the send of a caller has passed its entry checks (the session was known,
\* the process running) and has not returned
InFlight(c) == sends[c].pc \in {"input", "poll", "commit", "log", "return"}

\* a send in flight on a session that is gone adds it to neither map, and
\* when it ends it fails as unknown session or returns no line
EvictedStaysGone(c) ==
    (InFlight(c) /\ sends[c].sid \notin Held(sessions))
        => /\ sends[c].sid \notin Held(sessions')
           /\ sends[c].sid \notin DOMAIN sessionOffsets'
           /\ sends'[c].pc = "idle"
                 => /\ ret'.op = "send"
                    /\ ret'.sid = sends[c].sid
                    /\ \/ ~ret'.ok /\ ret'.msg = "unknown_session"
                       \/ ret'.ok /\ ret'.out = <<>>

\* C40: the map of session lines and the map of session offsets hold the
\* same keys at all times, and a session evicted while a send on it is in
\* flight is not created again: the send fails as unknown session, or
\* returns no line, and adds no entry to either map
EvictedSessionNotRecreated ==
    []MapsShareKeys /\ [][\A c \in Callers : EvictedStaysGone(c)]_vars

\* a send whose input was written has failed as unknown session: its
\* session was evicted meanwhile and is in neither map
EvictedSendLeftNoEntryWitness ==
    /\ ret.op = "send"
    /\ ret.msg = "unknown_session"
    /\ stdin # <<>>
    /\ ret.sid \notin Held(sessions)
    /\ ret.sid \notin DOMAIN sessionOffsets
    /\ Len(sessions) = MAX_SESSIONS

\* from one state to the next no session's offset gets smaller
OffsetsNeverDecrease ==
    \A sid \in DOMAIN sessionOffsets \cap DOMAIN sessionOffsets' :
        sessionOffsets'[sid] >= sessionOffsets[sid]

\* C23: the offset of a session into the log never decreases, whatever the
\* interleaving of the sends on it, of other writers to the log and of
\* truncations of the log
SessionOffsetMonotonic == [][OffsetsNeverDecrease]_vars

\* C23: a send has stored an offset for the first session that is smaller
\* than the offset the session was created with, the two lines of the start
\* marker
SessionOffsetFellWitness ==
    /\ 1 \in DOMAIN sessionOffsets
    /\ sessionOffsets[1] < 2
    /\ ret.op = "send"
    /\ ret.ok

\* the lines read from the log among the lines given, none of them from a
\* place of the log at or before `size`
ReadAfter(ls, size) ==
    \A k \in DOMAIN ls : ls[k].kind = "out" => ls[k].pos > size

\* the session just created starts at the end of the log
StartsAtLogSize ==
    (Len(sessions') > 0 /\ nextSid' = nextSid + 1)
        => /\ nextSid \in DOMAIN sessionOffsets'
           /\ sessionOffsets'[nextSid] = Len(log)

\* the lines a session holds, and the lines a send returns, were read from
\* the log behind the place where the log ended when the session was created
NothingFromBeforeCreation ==
    /\ \A i \in 1..Len(sessions) : ReadAfter(sessions[i].lines, sessions[i].born)
    /\ (ret.op = "send" /\ ret.ok /\ ret.sid \in Held(sessions))
          => ReadAfter(ret.out, sessions[LinesOf(sessions, ret.sid)].born)

\* C31: new_session sets the offset of the session to the size of the log at
\* that moment, and no send on the session ever returns a line the log held
\* before the session was created
SessionStartsAtLogEnd == []NothingFromBeforeCreation /\ [][StartsAtLogSize]_vars

\* a session was created when the log already held lines, and a send on it
\* returned a line read from the log
SendReadAfterCreationWitness ==
    /\ ret.op = "send"
    /\ ret.ok
    /\ ret.sid \in Held(sessions)
    /\ sessions[LinesOf(sessions, ret.sid)].born > 0
    /\ \E k \in DOMAIN ret.out : ret.out[k].kind = "out"
    /\ nextSid <= MaxNew + 1

\* a send whose polling is over
Collected(c) == sends[c].pc \in {"commit", "log", "return"}

\* C32: the output lines a send reports for its input were all appended to
\* the log after the input was written to the process; the "started" line of
\* the session and the lines a previous send logged are never among them
ResponseFollowsWrite ==
    \A c \in Callers : Collected(c) => ReadAfter(sends[c].out, sends[c].wrote)

\* the first send on a session reports the session's own "started" line,
\* which the log held before the input was written
SendReportedStartedLineWitness ==
    \E c \in Callers :
        /\ Collected(c)
        /\ \E k \in DOMAIN sends[c].out :
               /\ sends[c].out[k].kind = "out"
               /\ sends[c].out[k].pos <= sends[c].wrote
               /\ log[sends[c].out[k].pos] = Line("session", sends[c].sid, "started")

InitNoSessions ==
    /\ sessions = <<>>
    /\ sessionOffsets = <<>>
    /\ nextSid = 1
    /\ pendingStarted = {}
    /\ sends = [c \in Callers |-> IdleSend]
    /\ sendCount = 0

(***************************************************************************)
(* Step interpreter: tasks_runner.py                                       *)
(***************************************************************************)
\* a step as stored: its type, the rendered value of its one field (the
\* command, text, coordinate, duration, key or package) and its rendered
\* device_id, "" when the step has none or a blank one
StepOn(type, arg, dev) == [arg |-> arg, type |-> type, device_id |-> dev]
Step(type, arg) == StepOn(type, arg, "")

\* the step lists a stored task may hold
StepLists ==
    { <<>>,
      <<Step("adb_shell", "ls"), Step("adb_shell", "ls"), Step("adb_shell", "ls")>>,
      <<Step("note", "n"), Step("adb_tap", "bad"), Step("note", "n")>>,
      <<Step("note", "n"), Step("app", ""), Step("note", "n")>>,
      <<Step("adb_shell", "ls"), Step("autoglm_prompt", "go"), Step("note", "n")>>,
      <<Step("bogus", ""), Step("note", "n")>>,
      <<Step("sleep", "5"), Step("adb_tap", "7")>>,
      <<Step("sleep", "bad"), Step("note", "n")>>,
      <<Step("sleep", "0"), Step("sleep", "-3"), Step("sleep", "absent")>>,
      <<Step("sleep", "'0'"), Step("sleep", "''"), Step("sleep", "' 7'")>>,
      <<StepOn("adb_shell", "ls", "d3"), Step("adb_shell", "ls")>>,
      <<Step("adb_keyevent", "66"), Step("adb_keyevent", "3;rm -rf /"),
        Step("note", "n")>>,
      <<Step("adb_keyevent", "KEYCODE_HOME"), Step("adb_keyevent", "")>>,
      <<Step("adb_keyevent", " 66"), Step("adb_keyevent", "KEYCODE_"),
        Step("note", "n")>>,
      <<Step("adb_keyevent", "keycode_home")>>,
      <<Step("app_launch", "com.app"), Step("app_launch", "a;b"), Step("note", "n")>>,
      <<Step("app_launch", "")>> }

\* the tasks the storage may hold under an id
TaskDefs ==
    {[prompt |-> "", steps |-> l] : l \in StepLists}
        \cup {[prompt |-> "do", steps |-> <<Step("adb_shell", "ls")>>]}

\* what adb reports: the serials that are online, in the order listed
OnlineLists == {<<>>, <<"d2">>, <<"d2", "d1">>}

\* what the external process prints in reply to a prompt
PromptBodies == {"out", "", "Error:", "Enter your task:"}

IdleRun ==
    [cfgDev |-> "", online |-> <<>>, dev |-> "", offset |-> 0, text |-> "",
     pc |-> "idle", stage |-> "", collected |-> <<>>, prompt |-> "", steps |-> <<>>,
     mode |-> "", idx |-> 0, results |-> <<>>, pok |-> FALSE, pout |-> <<>>,
     err |-> "", calls |-> <<>>, pauses |-> <<>>]

\* run_task_by_id: the default device, the configured one or else the first
\* that is online
DefaultDevice(cfgDev, online) ==
    IF cfgDev # "" THEN cfgDev
    ELSE IF online # <<>> THEN online[1]
    ELSE ""

\* run_task_by_id that looks for an autoglm_prompt step in the first place
\* of the list only
NeedsAutoglmAtHead(steps) == steps # <<>> /\ steps[1].type = "autoglm_prompt"

\* run_task_by_id: needs_autoglm
NeedsAutoglm(steps) == \E i \in DOMAIN steps : steps[i].type = "autoglm_prompt"

IsPromptTaskNever(def) == FALSE

\* run_task_by_id: `if prompt:`
IsPromptTask(def) == def.prompt # ""

\* run_task_by_id that goes on after a failed step
HaltsNever(ok) == FALSE

\* run_task_by_id: `if not ok: break`
Halts(ok) == ~ok

\* run_task_by_id: the task is looked up, the default device chosen; a task
\* with a prompt is dispatched as one prompt, a task with an autoglm_prompt
\* step has the process ensured first
RunBegin(tid, def, cfgDev, online) ==
    /\ run.pc = "idle"
    /\ run' =
          IF tid \notin TaskIds
          THEN [IdleRun EXCEPT !.pc = "raised", !.err = "no_task"]
          ELSE LET r == [IdleRun EXCEPT !.steps = def.steps, !.idx = 1,
                                        !.dev = DefaultDevice(cfgDev, online),
                                        !.prompt = def.prompt,
                                        !.cfgDev = cfgDev, !.online = online]
               IN  IF IsPromptTask(def)
                   THEN [r EXCEPT !.pc = "ensure", !.mode = "prompt", !.stage = "first",
                                  !.text = def.prompt]
                   ELSE IF NeedsAutoglm(def.steps)
                   THEN [r EXCEPT !.pc = "ensure", !.mode = "steps", !.stage = "pre"]
                   ELSE [r EXCEPT !.pc = "step", !.mode = "steps"]
    /\ UNCHANGED <<invoked, supVars, log, ret, nonTask>>

\* where a run goes on when ensure_autoglm_running has returned: before the
\* steps to the first step, in a prompt dispatch to the write, from the end
\* of the log as it is then
AfterEnsure(r, size) ==
    IF r.stage = "pre" THEN [r EXCEPT !.pc = "step", !.stage = ""]
    ELSE [r EXCEPT !.pc = "send", !.offset = size]

\* ensure_autoglm_running: status(), and the check of the key when the
\* process is not running
RunEnsureStatus(keyOk) ==
    /\ run.pc = "ensure"
    /\ LockFree
    /\ DoStatus
    /\ run' = IF StatusRunning(pidFile, os) THEN AfterEnsure(run, Len(log))
              ELSE IF ~keyOk THEN [run EXCEPT !.pc = "raised", !.err = "no_key"]
              ELSE [run EXCEPT !.pc = "start"]
    /\ UNCHANGED <<nextPid, stopPc, stopPid, stdin, engineOut, log, ret, invoked, nonTask>>

\* ensure_autoglm_running: start(cfg), its message is logged, a refusal raises
RunEnsureStart(cfgDev, online, workdir, popenOk) ==
    /\ run.pc = "start"
    /\ LockFree
    /\ DoStart(cfgDev, online, workdir, popenOk)
    /\ LET msg == StartMsg(pidFile, os, workdir, cfgDev, online, popenOk)
       IN  /\ log' = Append(StartLog(log, msg), Line("autoglm", 0, "start"))
           /\ run' = IF msg = "started" THEN AfterEnsure(run, Len(log'))
                     ELSE [run EXCEPT !.pc = "raised", !.err = "start_failed"]
    /\ UNCHANGED <<stopPc, stopPid, stdin, engineOut, ret, invoked, nonTask>>

\* run_prompt_via_process: send_input; when the handle is unavailable the
\* process is stopped and started again, once
RunSend(writeOk) ==
    /\ run.pc = "send"
    /\ DoSendInput(run.text, writeOk)
    /\ LET r == SendInputResult(pidFile, os, proc, writeOk)
       IN  run' = IF r = "sent" THEN [run EXCEPT !.pc = "collect", !.collected = <<>>]
                  ELSE IF r = "handle_unavailable" /\ run.stage # "heal"
                  THEN [run EXCEPT !.pc = "heal"]
                  ELSE [run EXCEPT !.pc = "finish", !.pok = FALSE, !.pout = <<r>>]
    /\ UNCHANGED <<log, ret, invoked, nonTask>>

\* run_prompt_via_process: stop() is called
RunHealStop ==
    /\ run.pc = "heal"
    /\ DoStopBegin
    /\ run' = [run EXCEPT !.pc = "stopping", !.stage = "heal"]
    /\ UNCHANGED <<nextPid, log, stdin, engineOut, invoked, nonTask>>

\* run_prompt_via_process: stop() has returned, the process is ensured again
RunHealStopped ==
    /\ run.pc = "stopping"
    /\ LockFree
    /\ run' = [run EXCEPT !.pc = "ensure"]
    /\ UNCHANGED <<invoked, supVars, log, ret, nonTask>>

\* "Enter your task:", the line the process prints when it waits for input
ReadyMarker == "Enter your task:"

\* the bodies of the non-blank lines among the lines read
RECURSIVE Bodies(_)
Bodies(ls) ==
    IF ls = <<>> THEN <<>>
    ELSE IF Head(ls).text = "" THEN Bodies(Tail(ls))
    ELSE <<Head(ls).text>> \o Bodies(Tail(ls))

IsFatalNever(lines) == FALSE

\* _is_fatal_autoglm_output
IsFatal(lines) == \E i \in DOMAIN lines : lines[i] \in {"Error:", "Traceback"}

\* run_prompt_via_process: what it returns for the collected lines
PromptOk(lines) == lines = <<>> \/ ~IsFatal(lines)
PromptOut(lines) == IF lines = <<>> THEN <<"sent_no_log">> ELSE lines

\* _collect_autoglm_output: a poll that reads something; the collection ends
\* when a line read holds the ready marker
RunCollect ==
    /\ run.pc = "collect"
    /\ TailLines(log, run.offset, TailMaxBytes) # <<>>
    /\ LET read == Bodies(TailLines(log, run.offset, TailMaxBytes))
           all == run.collected \o read
           r == [run EXCEPT !.offset = TailEnd(Len(log), run.offset, TailMaxBytes),
                            !.collected = all]
       IN  run' = IF \E i \in DOMAIN read : read[i] = ReadyMarker
                  THEN [r EXCEPT !.pc = "finish", !.pok = PromptOk(all),
                                 !.pout = PromptOut(all), !.collected = <<>>]
                  ELSE r
    /\ UNCHANGED <<invoked, supVars, log, ret, nonTask>>

\* _collect_autoglm_output: the deadline has passed
RunCollectTimeout ==
    /\ run.pc = "collect"
    /\ run' = [run EXCEPT !.pc = "finish", !.pok = PromptOk(run.collected),
                          !.pout = PromptOut(run.collected), !.collected = <<>>]
    /\ UNCHANGED <<invoked, supVars, log, ret, nonTask>>

\* the result entry of a step
Result(type, ok, out) == [ok |-> ok, type |-> type, output |-> out]

\* run_task_by_id: the loop after the result of a step is appended
AfterStep(r, res) ==
    [r EXCEPT !.results = Append(r.results, res),
              !.pc = IF Halts(res.ok) THEN "returned" ELSE "step",
              !.idx = IF Halts(res.ok) THEN r.idx ELSE r.idx + 1,
              !.stage = "", !.text = "", !.offset = 0, !.pok = FALSE, !.pout = <<>>]

AfterAppGoesOn(r) == AfterStep(r, Result("app", TRUE, <<"retired">>))

\* run_task_by_id: the legacy step "app": the result with the message that
\* the application library is retired is appended and the loop is left
AfterApp(r) ==
    [r EXCEPT !.results = Append(r.results, Result("app", FALSE, <<"retired">>)),
              !.pc = "returned"]

\* the prompt dispatch has returned: a task with a prompt returns its one
\* result; an autoglm_prompt step logs the prompt and its output and the
\* loop goes on
RunPromptFinish ==
    /\ run.pc = "finish"
    /\ LET res == Result("autoglm_prompt", run.pok, run.pout)
       IN  IF run.mode = "prompt"
           THEN /\ run' = [run EXCEPT !.pc = "returned", !.results = <<res>>,
                              !.stage = "", !.text = "", !.offset = 0,
                              !.pok = FALSE, !.pout = <<>>]
                /\ UNCHANGED log
           ELSE /\ run' = AfterStep(run, res)
                /\ log' = log \o <<Line("step", run.idx, "autoglm_prompt")>>
                              \o [i \in DOMAIN run.pout |-> Line("step", run.idx, run.pout[i])]
    /\ UNCHANGED <<invoked, supVars, ret, nonTask>>

\* the characters of the keys and package names the steps carry
Chars(text) ==
    CASE text = "66" -> <<"6", "6">>
      [] text = " 66" -> <<" ", "6", "6">>
      [] text = "KEYCODE_HOME" -> <<"K", "E", "Y", "C", "O", "D", "E", "_", "H", "O", "M", "E">>
      [] text = "KEYCODE_" -> <<"K", "E", "Y", "C", "O", "D", "E", "_">>
      [] text = "keycode_home" -> <<"k", "e", "y", "c", "o", "d", "e", "_", "h", "o", "m", "e">>
      [] text = "3;rm -rf /" -> <<"3", ";", "r", "m", " ", "-", "r", "f", " ", "/">>
      [] text = "com.app" -> <<"c", "o", "m", ".", "a", "p", "p">>
      [] text = "a;b" -> <<"a", ";", "b">>
      [] OTHER -> <<>>

Digits == {"0", "1", "2", "3", "4", "5", "6", "7", "8", "9"}
Uppers == {"A", "B", "C", "D", "E", "F", "G", "H", "I", "J", "K", "L", "M",
           "N", "O", "P", "Q", "R", "S", "T", "U", "V", "W", "X", "Y", "Z"}
Lowers == {"a", "b", "c", "d", "e", "f", "g", "h", "i", "j", "k", "l", "m",
           "n", "o", "p", "q", "r", "s", "t", "u", "v", "w", "x", "y", "z"}

AllIn(chars, class) == \A i \in DOMAIN chars : chars[i] \in class

\* str.strip(): without the blanks at both ends
RECURSIVE Strip(_)
Strip(chars) ==
    IF chars = <<>> THEN chars
    ELSE IF Head(chars) = " " THEN Strip(Tail(chars))
    ELSE IF chars[Len(chars)] = " " THEN Strip(SubSeq(chars, 1, Len(chars) - 1))
    ELSE chars

KeyeventValidAny(key) == TRUE

\* adb.keyevent: the stripped key is not empty and is all digits or
\* KEYCODE_ followed by capitals, digits and underscores
KeyeventValid(key) ==
    LET k == Strip(Chars(key))
        prefix == <<"K", "E", "Y", "C", "O", "D", "E", "_">>
    IN  /\ k # <<>>
        /\ \/ AllIn(k, Digits)
           \/ /\ Len(k) > Len(prefix)
              /\ SubSeq(k, 1, Len(prefix)) = prefix
              /\ AllIn(SubSeq(k, Len(prefix) + 1, Len(k)), Uppers \cup Digits \cup {"_"})

\* adb.start_app: _validate of the package name
PackageLegal(package) ==
    /\ Chars(package) # <<>>
    /\ AllIn(Chars(package), Lowers \cup Uppers \cup Digits \cup {".", "_", "$"})

\* a value a step field holds: nothing (the key is absent), a number, or a
\* string given by its characters
Absent == <<"absent", 0, <<>>>>
Num(n) == <<"num", n, <<>>>>
Str(chars) == <<"str", 0, chars>>

\* the ms field of the sleep steps, by the name the step carries for it
MsField(arg) ==
    CASE arg = "absent" -> Absent
      [] arg = "0" -> Num(0)
      [] arg = "-3" -> Num(-3)
      [] arg = "5" -> Num(5)
      [] arg = "'0'" -> Str(<<"0">>)
      [] arg = "''" -> Str(<<>>)
      [] arg = "' 7'" -> Str(<<" ", "7">>)
      [] OTHER -> Str(<<"b", "a", "d">>)

\* step.get(key, default)
GetField(v, default) == IF v = Absent THEN Num(default) ELSE v

\* `value or default`: zero and the empty string count as false
OrDefault(v, default) ==
    IF (v[1] = "num" /\ v[2] = 0) \/ (v[1] = "str" /\ v[3] = <<>>)
    THEN Num(default)
    ELSE v

DigitValue(c) ==
    CASE c = "0" -> 0 [] c = "1" -> 1 [] c = "2" -> 2 [] c = "3" -> 3 [] c = "4" -> 4
      [] c = "5" -> 5 [] c = "6" -> 6 [] c = "7" -> 7 [] c = "8" -> 8 [] OTHER -> 9

RECURSIVE DecimalValue(_)
DecimalValue(chars) ==
    IF chars = <<>> THEN 0
    ELSE 10 * DecimalValue(SubSeq(chars, 1, Len(chars) - 1))
             + DigitValue(chars[Len(chars)])

\* int(): a number is itself; a string is stripped and read as an optional
\* sign and digits
IntRaises(v) ==
    /\ v[1] = "str"
    /\ LET k == Strip(v[3])
           d == IF k # <<>> /\ Head(k) \in {"-", "+"} THEN Tail(k) ELSE k
       IN  d = <<>> \/ ~AllIn(d, Digits)

IntOf(v) ==
    IF v[1] = "num" THEN v[2]
    ELSE LET k == Strip(v[3])
         IN  IF k # <<>> /\ Head(k) = "-" THEN 0 - DecimalValue(Tail(k))
             ELSE IF k # <<>> /\ Head(k) = "+" THEN DecimalValue(Tail(k))
             ELSE DecimalValue(k)

\* no parameter is given
NoParams == <<>>

\* the place of the first "}" of the characters, 0 when there is none
RECURSIVE FirstClose(_, _)
FirstClose(chars, i) ==
    IF i > Len(chars) THEN 0
    ELSE IF chars[i] = "}" THEN i
    ELSE FirstClose(chars, i + 1)

\* str.format(**params), read from left to right: <<TRUE, the rendered
\* characters>>, or <<FALSE, ...>> where format raises: a "{" that is never
\* closed, a "}" on its own, a field without a name (no positional
\* argument is given), a "{" within a field name, a name that is no key of
\* params; "{{" and "}}" give one brace
RECURSIVE Render(_, _)
Render(chars, params) ==
    IF chars = <<>> THEN <<TRUE, <<>>>>
    ELSE LET c == Head(chars)
             rest == Tail(chars)
             doubled == rest # <<>> /\ Head(rest) = c
             after(lit, more) == LET r == Render(more, params)
                                 IN  <<r[1], lit \o r[2]>>
         IN  IF c \in {"{", "}"} /\ doubled THEN after(<<c>>, Tail(rest))
             ELSE IF c = "}" THEN <<FALSE, <<>>>>
             ELSE IF c = "{"
             THEN LET close == FirstClose(rest, 1)
                      name == SubSeq(rest, 1, close - 1)
                  IN  IF close = 0 THEN <<FALSE, <<>>>>
                      ELSE IF name = <<>> \/ \E i \in DOMAIN name : name[i] = "{"
                      THEN <<FALSE, <<>>>>
                      ELSE IF name \notin DOMAIN params THEN <<FALSE, <<>>>>
                      ELSE after(params[name], SubSeq(rest, close + 1, Len(rest)))
             ELSE after(<<c>>, rest)

FormatIdentity(value, params) == value

\* _format: a string is rendered with the parameters and returned as it is
\* when format raises; any other value is returned as it is
Format(value, params) ==
    IF value[1] = "str"
    THEN LET r == Render(value[3], params)
         IN  IF r[1] THEN Str(r[2]) ELSE value
    ELSE value

\* the arguments of a call of _format that is still to be made
FormatArgs(value, params) == [fn |-> "_format", params |-> params, value |-> value]

\* _format(value, params) is called and returns
FormatCall ==
    /\ call.fn = "_format"
    /\ call' = [fn |-> "_format_done", params |-> call.params, value |-> call.value,
                result |-> Format(call.value, call.params)]
    /\ UNCHANGED nonFn

\* run_step, sleep: int(_format(step.get("ms", 500), params) or 500)
SleepValue(arg) == OrDefault(Format(GetField(MsField(arg), 500), NoParams), 500)
SleepRaises(arg) == IntRaises(SleepValue(arg))
SleepMs(arg) == IntOf(SleepValue(arg))

\* adb.pause_ms: the time slept, in milliseconds
PauseMs(ms) == IF ms > 0 THEN ms ELSE 0

\* _step_device_id: the step's own device_id, the default one when it has
\* none
StepDevice(st, default) == IF st.device_id # "" THEN st.device_id ELSE default

\* run_step: the adb function a step comes to call on the device, "" when it
\* calls none: a note and a sleep call none, a key that is not valid is
\* refused before the call, and so is whatever raises
DeviceFn(st) ==
    IF st.type = "adb_shell" THEN "shell"
    ELSE IF st.type = "adb_tap" /\ st.arg # "bad" THEN "tap"
    ELSE IF st.type = "adb_keyevent" /\ KeyeventValid(st.arg) THEN "keyevent"
    ELSE IF st.type = "app_launch" /\ PackageLegal(st.arg) THEN "start_app"
    ELSE ""

\* run_step: what a step other than a prompt comes to; devOk is whether the
\* device call succeeds; a field that is no number makes int() raise, a
\* package name that is not legal makes start_app raise
StepOutcome(st, devOk) ==
    IF st.type = "note" THEN "ok"
    ELSE IF st.type = "sleep" THEN (IF SleepRaises(st.arg) THEN "raise" ELSE "ok")
    ELSE IF st.type = "adb_tap"
    THEN (IF st.arg = "bad" THEN "raise" ELSE IF devOk THEN "ok" ELSE "fail")
    ELSE IF st.type = "adb_shell" THEN (IF devOk THEN "ok" ELSE "fail")
    ELSE IF st.type = "adb_keyevent"
    THEN (IF ~KeyeventValid(st.arg) THEN "fail" ELSE IF devOk THEN "ok" ELSE "fail")
    ELSE IF st.type = "app_launch"
    THEN (IF ~PackageLegal(st.arg) THEN "raise" ELSE IF devOk THEN "ok" ELSE "fail")
    ELSE "fail"

\* run_step: the step types that write a line to the log
StepLogs(st) == st.type \in {"note", "adb_shell", "adb_tap", "adb_keyevent", "app_launch"}

\* a call of an adb function on the device: the function, the device it is
\* addressed to, the step it is made for, what it is given, how it ends
AdbCall(fn, dev, idx, arg, ok) == [ok |-> ok, dev |-> dev, arg |-> arg, fn |-> fn, idx |-> idx]

\* run_task_by_id: the next step of the list; the legacy step "app" fails
\* without a call of run_step, an autoglm_prompt step is dispatched to the
\* process, any other is carried out
RunStep(devOk) ==
    /\ run.pc = "step"
    /\ run.idx <= Len(run.steps)
    /\ LET st == run.steps[run.idx]
           out == StepOutcome(st, devOk)
           calls == IF DeviceFn(st) = "" THEN run.calls
                    ELSE Append(run.calls, AdbCall(DeviceFn(st), StepDevice(st, run.dev),
                                                   run.idx, st.arg, devOk))
           pauses == IF st.type = "sleep"
                     THEN Append(run.pauses, <<run.idx, PauseMs(SleepMs(st.arg))>>)
                     ELSE run.pauses
       IN  IF st.type = "app"
           THEN /\ run' = AfterApp(run)
                /\ UNCHANGED <<invoked, log>>
           ELSE IF st.type = "autoglm_prompt"
           THEN /\ run' = [run EXCEPT !.pc = "ensure", !.stage = "first", !.text = st.arg]
                /\ invoked' = Append(invoked, run.idx)
                /\ UNCHANGED log
           ELSE /\ invoked' = Append(invoked, run.idx)
                /\ run' = IF out = "raise"
                          THEN [run EXCEPT !.pc = "raised", !.err = "bad_value"]
                          ELSE AfterStep([run EXCEPT !.calls = calls, !.pauses = pauses],
                                         Result(st.type, out = "ok", <<out>>))
                /\ log' = IF StepLogs(st) /\ out # "raise"
                          THEN Append(log, Line("step", run.idx, st.type))
                          ELSE log
    /\ UNCHANGED <<supVars, ret, nonTask>>

\* run_task_by_id: the list is used up, the results are returned
RunReturn ==
    /\ run.pc = "step"
    /\ run.idx > Len(run.steps)
    /\ run' = [run EXCEPT !.pc = "returned"]
    /\ UNCHANGED <<invoked, supVars, log, ret, nonTask>>

(***************************************************************************)
(* Step interpreter: properties                                            *)
(***************************************************************************)
\* C1: a step-driven run takes the steps in list order and stops at the
\* first whose ok is false: the results are the prefix of the steps up to
\* and including that step, every result but the last has ok = true, the
\* list is returned when a step failed or all are done, and no step after
\* the failing one is ever invoked
StepsRunInOrderUntilFailure ==
    run.mode = "steps"
        => /\ Len(run.results) <= Len(run.steps)
           /\ \A i \in DOMAIN run.results : run.results[i].type = run.steps[i].type
           /\ \A i \in DOMAIN run.results : i < Len(run.results) => run.results[i].ok
           /\ \A i, j \in DOMAIN invoked : i < j => invoked[i] < invoked[j]
           /\ \A i \in DOMAIN invoked : invoked[i] <= Len(run.results) + 1
           /\ run.pc = "returned"
                 => /\ \A i \in DOMAIN invoked : invoked[i] <= Len(run.results)
                    /\ \/ Len(run.results) = Len(run.steps)
                       \/ ~run.results[Len(run.results)].ok
                    /\ \A i \in DOMAIN run.results :
                          (run.steps[i].type # "app") => \E j \in DOMAIN invoked : invoked[j] = i

\* C1, its case: of three device steps the second failed; the results are
\* those of the first two and the third was never invoked
SecondOfThreeFailedWitness ==
    /\ run.pc = "returned"
    /\ Len(run.steps) = 3
    /\ \A i \in 1..3 : run.steps[i].type = "adb_shell"
    /\ Len(run.results) = 2
    /\ run.results[1].ok
    /\ ~run.results[2].ok
    /\ invoked = <<1, 2>>

\* C17: a task with a non-empty prompt is carried out as one prompt: none of
\* its steps is handed to run_step and no adb function is called for it, and
\* the list it returns holds exactly one result, of type autoglm_prompt
PromptTaskRunsOnePrompt ==
    run.prompt # ""
        => /\ invoked = <<>>
           /\ run.calls = <<>>
           /\ run.pc # "step"
           /\ Len(run.results) <= 1
           /\ run.pc = "returned"
                 => /\ Len(run.results) = 1
                    /\ run.results[1].type = "autoglm_prompt"

\* C17, its case: a task with a prompt and a step has returned its one result
PromptTaskReturnedWitness ==
    /\ run.prompt # ""
    /\ run.steps # <<>>
    /\ run.pc = "returned"
    /\ Len(run.results) = 1
    /\ run.results[1].ok

\* the default device by the rule of the specification: the configured one,
\* else the one device that is online when it is the only one, else none
SingleOnlineDefault(cfgDev, online) ==
    IF cfgDev # "" THEN cfgDev
    ELSE IF Len(online) = 1 THEN online[1]
    ELSE ""

\* every adb call of a run is addressed to the device_id of its step, or to
\* the default device of the run when the step has none
CallsUseStepOrDefaultDevice ==
    \A i \in DOMAIN run.calls :
        run.calls[i].dev = (IF run.steps[run.calls[i].idx].device_id # ""
                            THEN run.steps[run.calls[i].idx].device_id
                            ELSE run.dev)

\* C18: the device of a step is its own device_id when it has one, else the
\* default device of the run, which is the configured device, else the
\* single device that is online, else none: with no device configured and
\* several online the run does not take the first one found
DeviceNeverFirstOfSeveral ==
    run.mode # ""
        => /\ CallsUseStepOrDefaultDevice
           /\ run.dev = SingleOnlineDefault(run.cfgDev, run.online)

\* C18, the part that holds: the step's own device_id goes before the
\* default, and a configured device goes before the online ones
DeviceStepThenConfigured ==
    run.mode # ""
        => /\ CallsUseStepOrDefaultDevice
           /\ run.cfgDev # "" => run.dev = run.cfgDev
           /\ Len(run.online) = 1 /\ run.cfgDev = "" => run.dev = run.online[1]
           /\ Len(run.online) = 0 /\ run.cfgDev = "" => run.dev = ""

\* C18: a step with a device_id of its own was sent to that device, the step
\* after it to the default device
StepDeviceUsedWitness ==
    /\ Len(run.calls) = 2
    /\ run.calls[1].dev = "d3"
    /\ run.calls[2].dev = "d1"

\* C19: an adb_keyevent step whose key is neither all digits nor KEYCODE_
\* followed by capitals, digits and underscores ("3;rm -rf /", the empty
\* key) gets a result with ok = false and no adb function is called for it;
\* for the keys "66" and "KEYCODE_HOME" adb's keyevent is called on the
\* device with that key and the result is what the call gave
KeyeventGuarded ==
    \A i \in DOMAIN run.results :
        (run.mode = "steps" /\ run.steps[i].type = "adb_keyevent")
            => /\ run.steps[i].arg \in {"3;rm -rf /", "", "KEYCODE_", "keycode_home"}
                     => /\ ~run.results[i].ok
                        /\ \A j \in DOMAIN run.calls : run.calls[j].idx # i
               /\ run.steps[i].arg \in {"66", "KEYCODE_HOME"}
                     => \E j \in DOMAIN run.calls :
                           /\ run.calls[j].idx = i
                           /\ run.calls[j].fn = "keyevent"
                           /\ run.calls[j].arg = run.steps[i].arg
                           /\ run.calls[j].ok = run.results[i].ok
                           /\ \A k \in DOMAIN run.calls : run.calls[k].idx = i => k = j

\* C19, its case: the key "66" went to the device, the key "3;rm -rf /"
\* after it was refused without a call and ended the run
KeyeventRefusedWitness ==
    /\ run.pc = "returned"
    /\ Len(run.results) = 2
    /\ run.steps[2].type = "adb_keyevent"
    /\ run.steps[2].arg = "3;rm -rf /"
    /\ ~run.results[2].ok
    /\ Len(run.calls) = 1
    /\ run.calls[1].fn = "keyevent"

\* C20: whatever makes a step fail (the device call, a coordinate or a
\* duration that is no number, a package name that is not legal, a type
\* that is not known, a process that cannot be started for a prompt step) is
\* recorded as the result of the step with ok = false and returned with the
\* results before it; a step-driven run never ends by raising
StepFailuresNeverRaise ==
    run.mode = "steps"
        => /\ run.pc # "raised"
           /\ (run.pc = "returned" /\ Len(run.results) < Len(run.steps))
                 => /\ run.results # <<>>
                    /\ ~run.results[Len(run.results)].ok

\* C20, the part that holds: a run that returns before the end of its steps
\* returns the failed step as its last result
ReturnedFailureIsRecorded ==
    (run.mode = "steps" /\ run.pc = "returned" /\ Len(run.results) < Len(run.steps))
        => /\ run.results # <<>>
           /\ ~run.results[Len(run.results)].ok

\* C20: an app_launch step with a package name that is not legal ended the
\* run by raising, after a first step that had succeeded
IllegalPackageRaisedWitness ==
    /\ run.mode = "steps"
    /\ run.pc = "raised"
    /\ run.err = "bad_value"
    /\ Len(run.results) = 1
    /\ run.steps[2].type = "app_launch"

\* the non-blank lines the log holds after an offset
NonBlankAfter(offset) ==
    SelectSeq([i \in 1..(Len(log) - offset) |-> log[offset + i].body], LAMBDA b : b # "")

\* the lines a collection has when it ends: those of the polls before and,
\* when its last poll read something, those read then
CollectedAtEnd ==
    run.collected \o (IF run'.offset # run.offset THEN NonBlankAfter(run.offset) ELSE <<>>)

\* when the collection ends the dispatch is ok unless a collected line is an
\* error line or a stack-trace header; with nothing collected it is ok and
\* its output is the placeholder, else its output is the collected lines
CollectionClassified ==
    (run.pc = "collect" /\ run'.pc = "finish")
        => /\ run'.pok = ~(\E i \in DOMAIN CollectedAtEnd :
                              CollectedAtEnd[i] \in {"Error:", "Traceback"})
           /\ CollectedAtEnd = <<>> => (run'.pok /\ run'.pout = <<"sent_no_log">>)
           /\ CollectedAtEnd # <<>> => run'.pout = CollectedAtEnd

\* a collection that goes on has not collected the ready marker
CollectionStopsAtMarker ==
    run.pc = "collect" => \A i \in DOMAIN run.collected : run.collected[i] # ReadyMarker

ReadByCollection == {k \in DOMAIN log : run.offset < k /\ k <= run'.offset}

\* the lines a send of a session writes to the log
FromSession(k) == log[k].src \in {"session", "session_output"}

\* a collection reads no line that a send of a session wrote
CollectionSkipsSessionLines ==
    (run.pc = "collect" /\ run'.offset > run.offset)
        => \A k \in ReadByCollection : ~FromSession(k)

\* a collection that ends on the ready marker has read it in a line that no
\* send of a session wrote
CollectionEndsOnOwnMarker ==
    (run.pc = "collect" /\ run'.pc = "finish" /\ run'.offset > run.offset)
        => \E k \in ReadByCollection : log[k].body = ReadyMarker /\ ~FromSession(k)

\* C24: a session and a prompt dispatch of the interpreter use the process
\* at once without interfering: the lines collected for the prompt hold no
\* line written for the send of the session, and the text of that send does
\* not end the collection by holding the ready marker
PromptAndSessionIsolated ==
    [][CollectionSkipsSessionLines /\ CollectionEndsOnOwnMarker]_vars

\* C24: the dispatch of a prompt has ended on the ready marker with the echo
\* of a session's text as its output, the process having printed nothing
SessionEchoEndedCollectionWitness ==
    /\ run.pc = "finish"
    /\ run.pout # <<>>
    /\ run.pout[1] = ReadyMarker
    /\ engineOut = 0
    /\ \E k \in DOMAIN log : log[k] = Line("session", 1, ReadyMarker)

\* the interpreter's write to the process failed: send_input returned
\* anything but success
RunSendFailed ==
    /\ run.pc = "send"
    /\ run'.pc # "send"
    /\ run'.pc # "collect"

\* the failure is what the prompt dispatch returns
RunSendFailureReported ==
    /\ run'.pc = "finish"
    /\ ~run'.pok
    /\ stdin' = stdin
    /\ os' = os

\* C25: when send_input fails, a prompt dispatch reports that failure; it
\* never stops the process, never starts it again and never writes the
\* prompt a second time
PromptSendNeverRetried ==
    /\ [](run.pc \notin {"heal", "stopping"})
    /\ [](run.stage # "heal")
    /\ [][RunSendFailed => RunSendFailureReported]_vars

\* a dispatch that stopped the process, started it again and wrote the prompt
\* a second time, this time with success
PromptResentAfterRestartWitness ==
    /\ run.pc = "collect"
    /\ run.stage = "heal"
    /\ stdin # <<>>

\* a step of a step list is over: its result is appended, or it has raised
StepOver ==
    /\ run.mode = "steps"
    /\ \/ Len(run'.results) = Len(run.results) + 1
       \/ run.pc = "step" /\ run'.pc = "raised"

\* the log has gained a line written for the step that is over
StepLineAppended ==
    \E k \in DOMAIN log' :
        /\ k > Len(log)
        /\ log'[k].src = "step"
        /\ log'[k].sid = run.idx

\* C26: every step execution, of every step type and failing steps included,
\* appends at least one line to the shared log
EveryStepLogged == [][StepOver => StepLineAppended]_vars

\* a sleep step is over, it succeeded, and the log is as empty as before
SleepLeftNoLineWitness ==
    /\ run.results # <<>>
    /\ run.results[1].type = "sleep"
    /\ run.results[1].ok
    /\ log = <<>>

\* the next step of the run is a sleep step and the interpreter takes it
SleepStepTaken ==
    /\ run.pc = "step"
    /\ run.mode = "steps"
    /\ run.idx <= Len(run.steps)
    /\ run.steps[run.idx].type = "sleep"
    /\ run' # run

\* the pause the sleep step is to make: 500 when the field is absent, the
\* number itself when it is positive, nothing when it is zero or negative
SleepDue(arg) ==
    LET v == MsField(arg)
    IN  IF v = Absent THEN 500 ELSE IF v[2] > 0 THEN v[2] ELSE 0

\* the sleep step got a result with ok = true, and where its field is absent
\* or a number the run paused for the time due
SleepSucceeded ==
    /\ run'.pc # "raised"
    /\ Len(run'.results) = Len(run.results) + 1
    /\ run'.results[Len(run'.results)].ok
    /\ MsField(run.steps[run.idx].arg)[1] # "str"
          => /\ Len(run'.pauses) = Len(run.pauses) + 1
             /\ run'.pauses[Len(run'.pauses)]
                   = <<run.idx, SleepDue(run.steps[run.idx].arg)>>

\* C28: a sleep step always succeeds and pauses the run for max(ms, 0)
\* milliseconds, ms being 500 only when the field is absent; zero and
\* negative ms pause for no time
SleepPausesClamped == [][SleepStepTaken => SleepSucceeded]_vars

\* a sleep step with ms = 0 made the run pause for 500 milliseconds
SleepZeroPausedDefaultWitness ==
    /\ run.mode = "steps"
    /\ run.steps # <<>>
    /\ run.steps[1] = Step("sleep", "0")
    /\ run.pauses # <<>>
    /\ run.pauses[1] = <<1, 500>>

\* a sleep step with ms = -3 made the run pause for no time
SleepNegativeClampedWitness ==
    /\ run.mode = "steps"
    /\ Len(run.pauses) >= 2
    /\ run.steps[2] = Step("sleep", "-3")
    /\ run.pauses[2] = <<2, 0>>

\* the ways characters read as a template: a sequence of pieces, each a
\* literal (a character that is no brace, or a doubled brace standing for
\* one) or a field {name} whose name is not empty and holds no brace; a
\* template that is malformed has no reading
RECURSIVE Readings(_)
Readings(chars) ==
    IF chars = <<>> THEN {<<>>}
    ELSE LET n == Len(chars)
             from(k) == SubSeq(chars, k, n)
             braces == {"{", "}"}
             plain == IF chars[1] \notin braces
                      THEN {<<<<"lit", <<chars[1]>>>>>> \o r : r \in Readings(from(2))}
                      ELSE {}
             escaped == IF n >= 2 /\ chars[1] \in braces /\ chars[2] = chars[1]
                        THEN {<<<<"lit", <<chars[1]>>>>>> \o r : r \in Readings(from(3))}
                        ELSE {}
             closes == {k \in 3..n : /\ chars[1] = "{"
                                     /\ chars[k] = "}"
                                     /\ \A i \in 2..(k - 1) : chars[i] \notin braces}
             fields == UNION {{<<<<"field", SubSeq(chars, 2, k - 1)>>>> \o r :
                                  r \in Readings(from(k + 1))} : k \in closes}
         IN  plain \cup escaped \cup fields

\* every placeholder of the reading is a key of the parameters
Resolves(reading, params) ==
    \A i \in DOMAIN reading : reading[i][1] = "field" => reading[i][2] \in DOMAIN params

\* the reading with every placeholder replaced by its parameter
RECURSIVE Substituted(_, _)
Substituted(reading, params) ==
    IF reading = <<>> THEN <<>>
    ELSE (IF Head(reading)[1] = "field" THEN params[Head(reading)[2]] ELSE Head(reading)[2])
             \o Substituted(Tail(reading), params)

\* C29: _format fails closed: a string whose placeholders all resolve comes
\* back substituted ("a{n}" with n = "w" gives "aw"); a string with a
\* placeholder that does not resolve, or one that is malformed, comes back
\* as it was; any value that is no string comes back as it was
FormatFailsClosed ==
    call.fn = "_format_done"
        => LET v == call.value
               resolved == {r \in Readings(v[3]) : Resolves(r, call.params)}
           IN  IF v[1] # "str" THEN call.result = v
               ELSE IF resolved # {}
               THEN \E r \in resolved : call.result = Str(Substituted(r, call.params))
               ELSE call.result = v

\* "a{n}" was rendered with n = "w" and gave "aw"
FormatSubstitutedWitness ==
    /\ call.fn = "_format_done"
    /\ call.value = Str(<<"a", "{", "n", "}">>)
    /\ <<"n">> \in DOMAIN call.params
    /\ call.params[<<"n">>] = <<"w">>
    /\ call.result = Str(<<"a", "w">>)

\* "a{n}" was rendered without a parameter n and came back as it was, and so
\* did the malformed "a{n"
FormatUnresolvedWitness ==
    /\ call.fn = "_format_done"
    /\ call.value \in {Str(<<"a", "{", "n", "}">>), Str(<<"a", "{", "n">>)}
    /\ call.params = NoParams
    /\ call.result = call.value

\* the next step of the run is the legacy step "app" and the interpreter
\* takes it
AppStepTaken ==
    /\ run.pc = "step"
    /\ run.mode = "steps"
    /\ run.idx <= Len(run.steps)
    /\ run.steps[run.idx].type = "app"
    /\ run' # run

\* the step got the result (false, retired) and the run is over; no adb
\* function was called, nothing was slept, nothing was written to the
\* process or to the log, the process is as it was
AppStepRefused ==
    /\ run'.pc = "returned"
    /\ run'.results = Append(run.results, Result("app", FALSE, <<"retired">>))
    /\ run'.calls = run.calls
    /\ run'.pauses = run.pauses
    /\ invoked' = invoked
    /\ log' = log
    /\ stdin' = stdin
    /\ <<pidFile', proc', os'>> = <<pidFile, proc, os>>

\* the run is over and no step after an "app" step has a result or was
\* handed to run_step
NothingAfterApp ==
    run.mode = "steps"
        => \A i \in DOMAIN run.steps :
               (run.steps[i].type = "app" /\ Len(run.results) >= i)
                   => /\ run.pc = "returned"
                      /\ Len(run.results) = i
                      /\ \A k \in DOMAIN invoked : invoked[k] < i

\* C30: a step with the legacy tag "app" gets a result with ok = false and
\* the retirement message, without a call on the device or the process, and
\* the run ends there: no later step is carried out
AppStepHaltsRun == []NothingAfterApp /\ [][AppStepTaken => AppStepRefused]_vars

\* a run of [note, app, note] ended at the "app" step: the note before it
\* was carried out, the note after it was not
AppStepHaltedWitness ==
    /\ run.pc = "returned"
    /\ Len(run.steps) = 3
    /\ run.steps[2].type = "app"
    /\ Len(run.results) = 2
    /\ run.results[1].ok
    /\ ~run.results[2].ok
    /\ run.results[2].output = <<"retired">>
    /\ invoked = <<1>>

(***************************************************************************)
(* Cron scheduler: schedule.py                                             *)
(***************************************************************************)
\* A cron field is the sequence of its comma-separated parts.  A part is
\* "*", a value or a range "a-b", with the step of its "/step" suffix (1
\* without a suffix); kind "bad" is a part or a step that is no integer,
\* kind "empty" an empty part.
Part(kind, a, b, step) == [a |-> a, b |-> b, kind |-> kind, step |-> step]

\* _parse_field: the values of one part, clamped to the bounds of the field
PartValues(part, lo, hi) ==
    LET start == Max(lo, IF part.kind = "star" THEN lo ELSE part.a)
        end == Min(hi, IF part.kind = "star" THEN hi
                       ELSE IF part.kind = "val" THEN part.a ELSE part.b)
    IN  {v \in start..end : (v - start) % part.step = 0}

\* _parse_field: the set a field expands to; one unparsable part or one step
\* that is not positive empties the whole field
ParseField(field, lo, hi) ==
    IF \E i \in DOMAIN field :
          \/ field[i].kind = "bad"
          \/ field[i].kind # "empty" /\ field[i].step <= 0
    THEN {}
    ELSE UNION {PartValues(field[i], lo, hi) :
                   i \in {j \in DOMAIN field : field[j].kind # "empty"}}

\* Instants are seconds counted from 2024-01-01 00:00:00 at UTC+8, a Monday.
SecondOf(t) == t % 60
MinuteOf(t) == (t \div 60) % 60
HourOf(t) == (t \div 3600) % 24
DayIndex(t) == t \div 86400

\* the lengths of the months of 2024
MonthLengths == <<31, 29, 31, 30, 31, 30, 31, 31, 30, 31, 30, 31>>

RECURSIVE MonthFrom(_, _)
MonthFrom(d, m) ==
    IF m = 12 \/ d < MonthLengths[m] THEN m ELSE MonthFrom(d - MonthLengths[m], m + 1)

RECURSIVE DayFrom(_, _)
DayFrom(d, m) ==
    IF m = 12 \/ d < MonthLengths[m] THEN d + 1 ELSE DayFrom(d - MonthLengths[m], m + 1)

MonthOf(t) == MonthFrom(DayIndex(t), 1)
DayOf(t) == DayFrom(DayIndex(t), 1)

\* datetime.weekday(): Monday is 0
WeekdayOf(t) == DayIndex(t) % 7

CronDowMondayZero(t) == WeekdayOf(t)

\* _matches: the weekday as cron counts it, Sunday is 0
CronDow(t) == (WeekdayOf(t) + 1) % 7

\* _matches: all six fields hold the instant's component
Matches(cron, t) ==
    /\ Len(cron) = 6
    /\ SecondOf(t) \in ParseField(cron[1], 0, 59)
    /\ MinuteOf(t) \in ParseField(cron[2], 0, 59)
    /\ HourOf(t) \in ParseField(cron[3], 0, 23)
    /\ DayOf(t) \in ParseField(cron[4], 1, 31)
    /\ MonthOf(t) \in ParseField(cron[5], 1, 12)
    /\ LET dow == ParseField(cron[6], 0, 7)
       IN  CronDow(t) \in (IF 7 \in dow THEN dow \cup {0} ELSE dow)

FieldRangesNoSeven == <<<<0, 59>>, <<0, 59>>, <<0, 23>>, <<1, 31>>, <<1, 12>>, <<0, 6>>>>

\* is_valid_cron: the bounds of the six fields
FieldRanges == <<<<0, 59>>, <<0, 59>>, <<0, 23>>, <<1, 31>>, <<1, 12>>, <<0, 7>>>>

IsValidCron(cron) ==
    /\ Len(cron) = 6
    /\ \A i \in 1..6 : ParseField(cron[i], FieldRanges[i][1], FieldRanges[i][2]) # {}

\* the expressions used here
Star == <<Part("star", 0, 0, 1)>>
\* "* * * * * *"
EverySecond == <<Star, Star, Star, Star, Star, Star>>
\* "*/2 * * * * *"
EvenSeconds == <<<<Part("star", 0, 0, 2)>>, Star, Star, Star, Star, Star>>
\* "x * * * * *"
BadCron == <<<<Part("bad", 0, 0, 1)>>, Star, Star, Star, Star, Star>>

\* "0 */5 * * * *"
EveryFiveMinutes ==
    <<<<Part("val", 0, 0, 1)>>, <<Part("star", 0, 0, 5)>>, Star, Star, Star, Star>>
\* "0 0 12 * * 0"
SundayNoon0 ==
    <<<<Part("val", 0, 0, 1)>>, <<Part("val", 0, 0, 1)>>, <<Part("val", 12, 12, 1)>>,
      Star, Star, <<Part("val", 0, 0, 1)>>>>
\* "0 0 12 * * 7"
SundayNoon7 ==
    <<<<Part("val", 0, 0, 1)>>, <<Part("val", 0, 0, 1)>>, <<Part("val", 12, 12, 1)>>,
      Star, Star, <<Part("val", 7, 7, 1)>>>>
\* "0 0 0 31 2 *": valid, and no day is a 31st of February
FebruaryThirtyFirst ==
    <<<<Part("val", 0, 0, 1)>>, <<Part("val", 0, 0, 1)>>, <<Part("val", 0, 0, 1)>>,
      <<Part("val", 31, 31, 1)>>, <<Part("val", 2, 2, 1)>>, Star>>

\* "* * * * *" and "* * * * * * *"
FiveFields == <<Star, Star, Star, Star, Star>>
SevenFields == <<Star, Star, Star, Star, Star, Star, Star>>
\* "70 * * * * *", "60-70 * * * * *", "50-70 * * * * *" and "5,70 * * * * *"
ValueOutside == <<<<Part("val", 70, 70, 1)>>, Star, Star, Star, Star, Star>>
RangeOutside == <<<<Part("range", 60, 70, 1)>>, Star, Star, Star, Star, Star>>
RangePartlyOutside == <<<<Part("range", 50, 70, 1)>>, Star, Star, Star, Star, Star>>
ListPartlyOutside ==
    <<<<Part("val", 5, 5, 1), Part("val", 70, 70, 1)>>, Star, Star, Star, Star, Star>>
\* "* * * 0 * *": day-of-month starts at 1
DayZero == <<Star, Star, Star, <<Part("val", 0, 0, 1)>>, Star, Star>>
\* "*/0 * * * * *", "5,x * * * * *" and ", * * * * *"
ZeroStep == <<<<Part("star", 0, 0, 0)>>, Star, Star, Star, Star, Star>>
ListWithBad ==
    <<<<Part("val", 5, 5, 1), Part("bad", 0, 0, 1)>>, Star, Star, Star, Star, Star>>
OnlyComma ==
    <<<<Part("empty", 0, 0, 1), Part("empty", 0, 0, 1)>>, Star, Star, Star, Star, Star>>

\* an instant by its day of 2024 (0 is January 1st) and its time of day
Instant(d, h, m, s) == d * 86400 + h * 3600 + m * 60 + s

\* the instants the cron functions are called at: Mondays, Saturdays and
\* Sundays, the end of January, February and the year, around midnight, noon
\* and the fifth minutes
Instants ==
    {Instant(d, h, m, s) : d \in {0, 5, 6, 13, 30, 59, 365}, h \in {0, 11, 12, 23},
                           m \in {0, 1, 4, 5, 55, 59}, s \in {0, 1, 58, 59}}

\* _cron_sets: the six sets of the expression, <<>> (None) when it has not
\* six fields or a field expands to nothing
CronSets(cron) ==
    IF Len(cron) # 6 THEN <<>>
    ELSE LET parsed == [i \in 1..6 |->
                           ParseField(cron[i], FieldRanges[i][1], FieldRanges[i][2])]
         IN  IF \E i \in 1..6 : parsed[i] = {} THEN <<>> ELSE parsed

\* next_run_ts: the day-of-week set, a 7 in it adds 0
DowSet(fields) == IF 7 \in fields[6] THEN fields[6] \cup {0} ELSE fields[6]

\* next_run_ts: the test one scanned instant goes through
ScanHit(fields, dt) ==
    /\ SecondOf(dt) \in fields[1]
    /\ MinuteOf(dt) \in fields[2]
    /\ HourOf(dt) \in fields[3]
    /\ DayOf(dt) \in fields[4]
    /\ MonthOf(dt) \in fields[5]
    /\ CronDow(dt) \in DowSet(fields)

ScanStartAtNow(now) == now

\* next_run_ts: the scan starts one second after the reference
ScanStart(now) == now + 1

\* next_run_ts: the first of the maxScan instants from the start on that
\* passes the test, 0 when there is none or the expression has no sets
NextRunTs(cron, now, maxScan) ==
    LET fields == CronSets(cron)
    IN  IF fields = <<>> THEN 0
        ELSE LET hits == {o \in 0..(maxScan - 1) : ScanHit(fields, ScanStart(now) + o)}
             IN  IF hits = {} THEN 0
                 ELSE ScanStart(now) + (CHOOSE o \in hits : \A p \in hits : o <= p)

\* the arguments a cron function is about to be called with
CronArgs(cron, now, maxScan) ==
    [fn |-> "args", cron |-> cron, now |-> now, maxScan |-> maxScan]

\* next_run_ts(expr, now, max_scan_seconds)
NextRun ==
    /\ call.fn = "args"
    /\ call' = [fn |-> "next_run_ts",
                result |-> NextRunTs(call.cron, call.now, call.maxScan),
                cron |-> call.cron, now |-> call.now, maxScan |-> call.maxScan]
    /\ UNCHANGED nonFn

\* _matches(cron, dt)
MatchCall ==
    /\ call.fn = "args"
    /\ call' = [fn |-> "_matches", result |-> Matches(call.cron, call.now),
                cron |-> call.cron, now |-> call.now, maxScan |-> call.maxScan]
    /\ UNCHANGED nonFn

\* is_valid_cron(expr)
ValidCall ==
    /\ call.fn = "args"
    /\ call' = [fn |-> "is_valid_cron", result |-> IsValidCron(call.cron),
                cron |-> call.cron, now |-> call.now, maxScan |-> call.maxScan]
    /\ UNCHANGED nonFn

(***************************************************************************)
(* Cron functions: properties                                              *)
(***************************************************************************)
\* the instants the scan of the call looked at
Scanned == (call.now + 1)..(call.now + call.maxScan)

\* C13 as stated: for every valid expression and every instant next_run_ts
\* returns an instant after the reference that matches, with no matching
\* instant in between
NextRunAlwaysFinds ==
    (call.fn = "next_run_ts" /\ IsValidCron(call.cron))
        => /\ call.result > call.now
           /\ Matches(call.cron, call.result)
           /\ \A u \in (call.now + 1)..(call.result - 1) : ~Matches(call.cron, u)

\* C13, amended: for a valid expression, when an instant of the scanned
\* horizon after the reference matches, next_run_ts returns the first such
\* instant: it is after the reference, matches, and nothing between matches;
\* when no instant of the horizon matches it returns 0
NextRunFirstMatchInHorizon ==
    (call.fn = "next_run_ts" /\ IsValidCron(call.cron))
        => IF \E u \in Scanned : Matches(call.cron, u)
           THEN /\ call.result \in Scanned
                /\ Matches(call.cron, call.result)
                /\ \A u \in (call.now + 1)..(call.result - 1) : ~Matches(call.cron, u)
           ELSE call.result = 0

\* C13, its case: the reference itself matches and the call returns a later
\* instant, not the reference
NextRunSkipsReferenceWitness ==
    /\ call.fn = "next_run_ts"
    /\ IsValidCron(call.cron)
    /\ Matches(call.cron, call.now)
    /\ call.result > call.now + 1

\* C13, the case the statement leaves out: a valid expression with no match
\* in the horizon
NextRunNothingFoundWitness ==
    /\ call.fn = "next_run_ts"
    /\ call.cron = FebruaryThirtyFirst
    /\ call.result = 0

\* the instant is a Sunday at 12:00:00 (day 0 of the count is a Monday)
IsSundayNoon(t) == (t \div 86400) % 7 = 6 /\ t % 86400 = 12 * 3600

\* C14: _matches holds only when each of the six fields contains the
\* instant's component, the weekday counted with Sunday as 0 and a 7 in the
\* field standing for Sunday too: "0 */5 * * * *" matches exactly the
\* instants with second 0 and a minute divisible by 5, "0 0 12 * * 0" and
\* "0 0 12 * * 7" match exactly the Sundays at 12:00:00
MatchesAllSixFields ==
    call.fn = "_matches"
        => /\ call.result
                 => /\ Len(call.cron) = 6
                    /\ SecondOf(call.now) \in ParseField(call.cron[1], 0, 59)
                    /\ MinuteOf(call.now) \in ParseField(call.cron[2], 0, 59)
                    /\ HourOf(call.now) \in ParseField(call.cron[3], 0, 23)
                    /\ DayOf(call.now) \in ParseField(call.cron[4], 1, 31)
                    /\ MonthOf(call.now) \in ParseField(call.cron[5], 1, 12)
                    /\ \/ (DayIndex(call.now) + 1) % 7 \in ParseField(call.cron[6], 0, 7)
                       \/ /\ DayIndex(call.now) % 7 = 6
                          /\ 7 \in ParseField(call.cron[6], 0, 7)
           /\ call.cron = EveryFiveMinutes
                 => call.result = ((call.now % 60 = 0) /\ ((call.now \div 60) % 60) % 5 = 0)
           /\ call.cron \in {SundayNoon0, SundayNoon7}
                 => call.result = IsSundayNoon(call.now)

\* C14, its case: the expression with day-of-week 7 matched a Sunday noon
SundaySevenMatchedWitness ==
    /\ call.fn = "_matches"
    /\ call.cron = SundayNoon7
    /\ IsSundayNoon(call.now)
    /\ call.result

\* the bounds the specification gives the i-th field
LowOf(i) == IF i \in {4, 5} THEN 1 ELSE 0
HighOf(i) == <<59, 59, 23, 31, 12, 7>>[i]

\* the first and the last value a part names
FirstOf(part, i) == IF part.kind = "star" THEN LowOf(i) ELSE part.a
LastOf(part, i) ==
    IF part.kind = "star" THEN HighOf(i) ELSE IF part.kind = "val" THEN part.a ELSE part.b

\* a part that is no number, or whose step is no number or not positive
Unusable(part) == part.kind = "bad" \/ (part.kind # "empty" /\ part.step <= 0)

\* the part names a value or a range that leaves the bounds of the i-th field
NamesOutside(part, i) ==
    /\ part.kind \in {"val", "range"}
    /\ FirstOf(part, i) < LowOf(i) \/ LastOf(part, i) > HighOf(i)

\* the part names at least one value within the bounds of the i-th field
NamesInside(part, i) ==
    /\ part.kind \in {"star", "val", "range"}
    /\ Max(LowOf(i), FirstOf(part, i)) <= Min(HighOf(i), LastOf(part, i))

\* the i-th field expands to a non-empty set within its bounds
ExpandsNonEmpty(cron, i) ==
    /\ \A k \in DOMAIN cron[i] : ~Unusable(cron[i][k])
    /\ \E k \in DOMAIN cron[i] : NamesInside(cron[i][k], i)

\* C15 as stated: is_valid_cron is true exactly for six fields that each
\* expand to a non-empty set within their bounds, and a field naming a value
\* or a range outside its bounds, a token that is no number or a step that is
\* not positive makes the expression invalid
ValidRejectsAnythingOutside ==
    call.fn = "is_valid_cron"
        => /\ call.result = (/\ Len(call.cron) = 6
                             /\ \A i \in 1..6 : ExpandsNonEmpty(call.cron, i))
           /\ (\E i \in 1..Min(6, Len(call.cron)) : \E k \in DOMAIN call.cron[i] :
                  \/ Unusable(call.cron[i][k])
                  \/ NamesOutside(call.cron[i][k], i))
                 => ~call.result

\* C15, amended: is_valid_cron is true exactly for six fields that each
\* expand to a non-empty set within their bounds; a token that is no number
\* or a step that is not positive makes the expression invalid, and so does
\* a field none of whose parts names a value within the bounds; a range or a
\* list that only partly leaves the bounds is cut to the bounds and accepted
ValidIffSixNonEmpty ==
    call.fn = "is_valid_cron"
        => /\ call.result = (/\ Len(call.cron) = 6
                             /\ \A i \in 1..6 : ExpandsNonEmpty(call.cron, i))
           /\ (\E i \in 1..Min(6, Len(call.cron)) :
                  \/ \E k \in DOMAIN call.cron[i] : Unusable(call.cron[i][k])
                  \/ \A k \in DOMAIN call.cron[i] : ~NamesInside(call.cron[i][k], i))
                 => ~call.result
           /\ (/\ Len(call.cron) = 6
               /\ \A i \in 1..6 :
                     /\ \A k \in DOMAIN call.cron[i] : ~Unusable(call.cron[i][k])
                     /\ \E k \in DOMAIN call.cron[i] : NamesInside(call.cron[i][k], i))
                 => call.result

\* C15, its case: a range that leaves the bounds in part was accepted
ValidPartlyOutsideWitness ==
    /\ call.fn = "is_valid_cron"
    /\ call.cron = RangePartlyOutside
    /\ call.result

\* C15: a value outside the bounds on its own was refused
ValidValueOutsideRefusedWitness ==
    /\ call.fn = "is_valid_cron"
    /\ call.cron = ValueOutside
    /\ ~call.result

Sched(id, task, cron, enabled, last, hist) ==
    [cron |-> cron, id |-> id, enabled |-> enabled, task_id |-> task,
     last_run_ts |-> last, history |-> hist]

\* _find_index: 0 when no schedule has the id
FindIndex(items, id) ==
    IF \E k \in DOMAIN items : items[k].id = id
    THEN CHOOSE k \in DOMAIN items : items[k].id = id /\ \A j \in 1..(k - 1) : items[j].id # id
    ELSE 0

\* the thread is alive: started and not yet returned from _tick_loop
Alive(th) == th.pc \notin {"unborn", "created", "dead"}

NoThread ==
    [pc |-> "unborn", idx |-> 0, now |-> 0, items |-> <<>>, running |-> {}, sleepFrom |-> 0]

\* _tick_loop: the conditions under which a loaded schedule is fired
Due(sched, now, running) ==
    /\ sched.enabled
    /\ sched.cron # <<>>
    /\ sched.task_id # ""
    /\ sched.task_id \notin running
    /\ now # sched.last_run_ts
    /\ Matches(sched.cron, now)

\* _tick_loop: the next schedule of the loaded list to fire, 0 when none is
NextDue(items, idx, now, running) ==
    LET due == {j \in idx..Len(items) : Due(items[j], now, running)}
    IN  IF due = {} THEN 0 ELSE CHOOSE j \in due : \A k \in due : j <= k

\* _tick_loop: the loop condition, then the instant is taken and the
\* schedules are read afresh
TickTop(t) ==
    /\ tick[t].pc = "top"
    /\ tick' = [tick EXCEPT ![t] =
          IF stopEvent THEN [@ EXCEPT !.pc = "dead"]
          ELSE [@ EXCEPT !.pc = "scan", !.now = clock, !.items = store, !.idx = 1]]
    /\ UNCHANGED <<clock, store, threadRef, stopEvent, nextTid, api, nextUuid, fires>>
    /\ UNCHANGED <<log, ret, nonSched>>

\* _tick_loop: the schedules before the next due one are skipped and that
\* one is fired, its task id entered in running_tasks; the thread sleeps
\* when none is left
TickScan(t) ==
    /\ tick[t].pc = "scan"
    /\ LET j == NextDue(tick[t].items, tick[t].idx, tick[t].now, tick[t].running)
       IN  IF j = 0
           THEN /\ tick' = [tick EXCEPT ![t].pc = "sleep", ![t].sleepFrom = clock]
                /\ UNCHANGED fires
           ELSE /\ tick' = [tick EXCEPT ![t].pc = "running", ![t].idx = j,
                               ![t].running = @ \cup {tick[t].items[j].task_id}]
                /\ fires' = fires \cup
                      {[tid |-> t, id |-> tick[t].items[j].id, sec |-> tick[t].now]}
    /\ UNCHANGED <<clock, store, threadRef, stopEvent, nextTid, api, nextUuid>>
    /\ UNCHANGED <<log, ret, nonSched>>

\* _record_result: the size the history is trimmed to
HistoryMax == 10

\* the first instant of a run of the service; the recorded runs of the
\* schedules lie before it, and 0 is the last_run_ts of a schedule never run
FirstInstant == HistoryMax + 1

\* _record_result with the first entries kept instead of the last
TrimHistoryFront(h) == IF Len(h) <= HistoryMax THEN h ELSE SubSeq(h, 1, HistoryMax)

\* _record_result: history[-10:]
TrimHistory(h) == LastN(h, HistoryMax)

\* _run_once: the ok flag recorded for a run
RunOk(outcome) == outcome = "ok"

\* _run_once that lets the interpreter's error through
PcAfterRunRaises(outcome) == IF outcome = "raise" THEN "dead" ELSE "persist"

\* _run_once: where the thread goes on after the run
PcAfterRun(outcome) == "persist"

\* _run_once and _record_result: the runner returns or raises, the entry is
\* appended to the loaded schedule and the result logged
RunEnd(t, outcome) ==
    /\ tick[t].pc = "running"
    /\ LET sched == tick[t].items[tick[t].idx]
           entry == [ok |-> RunOk(outcome), output |-> outcome, ts |-> clock]
       IN  /\ tick' = [tick EXCEPT ![t].pc = PcAfterRun(outcome),
                          ![t].items[tick[t].idx] =
                              [sched EXCEPT !.history = TrimHistory(Append(sched.history, entry)),
                                            !.last_run_ts = clock]]
           /\ log' = Append(log, Line("scheduler", 0, IF RunOk(outcome) THEN "OK" ELSE "FAIL"))
    /\ UNCHANGED <<clock, store, threadRef, stopEvent, nextTid, api, nextUuid, fires>>
    /\ UNCHANGED <<ret, nonSched>>

\* update_schedule_run_state that writes the schedule back as it was when it
\* fired: enabled
RunStateUpdateAsLoaded(items, id, last, hist) ==
    IF id = "" \/ FindIndex(items, id) = 0 THEN items
    ELSE [items EXCEPT ![FindIndex(items, id)].last_run_ts = last,
                       ![FindIndex(items, id)].history = hist,
                       ![FindIndex(items, id)].enabled = TRUE]

\* update_schedule_run_state: last_run_ts and history of the schedule with
\* the id are replaced, nothing is written when it is gone
RunStateUpdate(items, id, last, hist) ==
    IF id = "" \/ FindIndex(items, id) = 0 THEN items
    ELSE [items EXCEPT ![FindIndex(items, id)].last_run_ts = last,
                       ![FindIndex(items, id)].history = hist]

\* _tick_loop: the run state is persisted and the task id leaves
\* running_tasks
TickPersist(t) ==
    /\ tick[t].pc = "persist"
    /\ LET sched == tick[t].items[tick[t].idx]
       IN  /\ store' = RunStateUpdate(store, sched.id, sched.last_run_ts, sched.history)
           /\ tick' = [tick EXCEPT ![t].pc = "scan", ![t].idx = @ + 1,
                          ![t].running = @ \ {sched.task_id}]
    /\ UNCHANGED <<clock, threadRef, stopEvent, nextTid, api, nextUuid, fires>>
    /\ UNCHANGED <<log, ret, nonSched>>

\* _tick_loop: time.sleep(1) returns, at least one second later
TickWake(t) ==
    /\ tick[t].pc = "sleep"
    /\ clock > tick[t].sleepFrom
    /\ tick' = [tick EXCEPT ![t].pc = "top"]
    /\ UNCHANGED <<clock, store, threadRef, stopEvent, nextTid, api, nextUuid, fires>>
    /\ UNCHANGED <<log, ret, nonSched>>

\* a second passes
ClockTick ==
    /\ clock < FirstInstant + MaxTicks
    /\ clock' = clock + 1
    /\ UNCHANGED <<store, tick, threadRef, stopEvent, nextTid, api, nextUuid, fires>>
    /\ UNCHANGED <<log, ret, nonSched>>

\* stop_scheduler: the event is set (the join that follows changes nothing)
StopScheduler ==
    /\ stopEvent' = TRUE
    /\ UNCHANGED <<clock, store, tick, threadRef, nextTid, api, nextUuid, fires>>
    /\ UNCHANGED <<log, ret, nonSched>>

\* a request to api_save_schedule: where it stands, its payload, the stored
\* schedule it read and its answer
IdleApi == [pc |-> "idle", res |-> "", pl |-> <<>>, base |-> <<>>]

\* api_save_schedule: the task must exist and the expression be valid; then
\* the stored schedule with the id is read
ApiSaveRead(a, pl) ==
    /\ api[a].pc = "idle"
    /\ api' = [api EXCEPT ![a] =
          IF pl.task_id = "" \/ pl.task_id \notin TaskIds
          THEN [@ EXCEPT !.pc = "done", !.res = "no_such_task"]
          ELSE IF pl.cron = <<>> \/ ~IsValidCron(pl.cron)
          THEN [@ EXCEPT !.pc = "done", !.res = "invalid_cron"]
          ELSE [@ EXCEPT !.pc = "upsert", !.pl = <<pl>>,
                         !.base = IF FindIndex(store, pl.id) = 0 THEN <<>>
                                  ELSE <<store[FindIndex(store, pl.id)]>>]]
    /\ UNCHANGED <<clock, store, tick, threadRef, stopEvent, nextTid, nextUuid, fires>>
    /\ UNCHANGED <<log, ret, nonSched>>

\* upsert_schedule: the schedule replaces the stored one with its id or is
\* appended
Upsert(items, sched) ==
    IF FindIndex(items, sched.id) # 0
    THEN [items EXCEPT ![FindIndex(items, sched.id)] = sched]
    ELSE Append(items, sched)

\* api_save_schedule: the schedule is built on the run state read before
\* and stored; a schedule without id gets a fresh one
ApiSaveUpsert(a) ==
    /\ api[a].pc = "upsert"
    /\ api[a].pl[1].id = "" => nextUuid <= Len(Uuids)
    /\ LET pl == api[a].pl[1]
           base == api[a].base
           new == Sched(IF pl.id = "" THEN Uuids[nextUuid] ELSE pl.id,
                        pl.task_id, pl.cron, pl.enabled,
                        IF base = <<>> THEN 0 ELSE base[1].last_run_ts,
                        IF base = <<>> THEN <<>> ELSE base[1].history)
       IN  /\ store' = Upsert(store, new)
           /\ nextUuid' = IF pl.id = "" THEN nextUuid + 1 ELSE nextUuid
    /\ api' = [api EXCEPT ![a].pc = "check", ![a].pl = <<>>, ![a].base = <<>>]
    /\ UNCHANGED <<clock, tick, threadRef, stopEvent, nextTid, fires>>
    /\ UNCHANGED <<log, ret, nonSched>>

\* ensure_scheduler_started: nothing to do when _thread is alive
EnsureCheck(a) ==
    /\ api[a].pc = "check"
    /\ api' = [api EXCEPT ![a] =
          IF threadRef # 0 /\ Alive(tick[threadRef])
          THEN [@ EXCEPT !.pc = "done", !.res = "saved"]
          ELSE [@ EXCEPT !.pc = "clear"]]
    /\ UNCHANGED <<clock, store, tick, threadRef, stopEvent, nextTid, nextUuid, fires>>
    /\ UNCHANGED <<log, ret, nonSched>>

\* ensure_scheduler_started: _stop_event.clear()
EnsureClear(a) ==
    /\ api[a].pc = "clear"
    /\ stopEvent' = FALSE
    /\ api' = [api EXCEPT ![a].pc = "create"]
    /\ UNCHANGED <<clock, store, tick, threadRef, nextTid, nextUuid, fires>>
    /\ UNCHANGED <<log, ret, nonSched>>

\* ensure_scheduler_started: _thread = threading.Thread(...)
EnsureCreate(a) ==
    /\ api[a].pc = "create"
    /\ nextTid <= MaxThreads
    /\ tick' = [tick EXCEPT ![nextTid].pc = "created"]
    /\ threadRef' = nextTid
    /\ nextTid' = nextTid + 1
    /\ api' = [api EXCEPT ![a].pc = "start"]
    /\ UNCHANGED <<clock, store, stopEvent, nextUuid, fires>>
    /\ UNCHANGED <<log, ret, nonSched>>

\* ensure_scheduler_started: _thread.start(), on whatever _thread names by
\* now; starting a thread a second time raises
EnsureStart(a) ==
    /\ api[a].pc = "start"
    /\ IF tick[threadRef].pc = "created"
       THEN /\ tick' = [tick EXCEPT ![threadRef].pc = "top"]
            /\ api' = [api EXCEPT ![a].pc = "done", ![a].res = "saved"]
       ELSE /\ api' = [api EXCEPT ![a].pc = "done", ![a].res = "thread_already_started"]
            /\ UNCHANGED tick
    /\ UNCHANGED <<clock, store, threadRef, stopEvent, nextTid, nextUuid, fires>>
    /\ UNCHANGED <<log, ret, nonSched>>

\* delete_schedule
ApiDelete(id) ==
    /\ FindIndex(store, id) # 0
    /\ store' = [k \in 1..(Len(store) - 1) |->
                    IF k < FindIndex(store, id) THEN store[k] ELSE store[k + 1]]
    /\ UNCHANGED <<clock, tick, threadRef, stopEvent, nextTid, api, nextUuid, fires>>
    /\ UNCHANGED <<log, ret, nonSched>>

\* a history of HistoryMax runs recorded before the first instant
FullHistory == [i \in 1..HistoryMax |-> [ok |-> i % 2 = 0, output |-> "ok", ts |-> i]]

(***************************************************************************)
(* Cron scheduler: properties                                              *)
(***************************************************************************)
\* the schedule a thread is running or has just run
Current(t) == tick[t].items[tick[t].idx]

\* C2 as stated: at every moment at most one scheduled run of a task is in
\* progress; runs of two schedules on the same task never overlap
NoOverlapPerTask ==
    \A t, u \in Tids :
        (t # u /\ tick[t].pc = "running" /\ tick[u].pc = "running")
            => Current(t).task_id # Current(u).task_id

\* the entries of a history are in the order of their time stamps
Chronological(h) == \A i, j \in DOMAIN h : i < j => h[i].ts <= h[j].ts

\* every persisted history holds at most ten entries, oldest first
HistoryBounded ==
    \A k \in DOMAIN store :
        Len(store[k].history) <= 10 /\ Chronological(store[k].history)

\* a recorded run puts one entry {ts, ok, output} at the end of the history
\* and, when ten are held already, drops the first
RunAppendsAndEvicts ==
    \A t \in Tids :
        (tick[t].pc = "running" /\ tick'[t].pc # "running")
            => LET old == Current(t).history
                   new == tick'[t].items[tick[t].idx].history
                   keep == IF Len(old) < 10 THEN old ELSE Tail(old)
               IN  /\ Len(new) = Len(keep) + 1
                   /\ \A i \in DOMAIN keep : new[i] = keep[i]
                   /\ DOMAIN new[Len(new)] = {"ts", "ok", "output"}
                   /\ new[Len(new)].ts = clock

\* what is persisted after a run is the history the run recorded
RunStatePersisted ==
    \A t \in Tids :
        (tick[t].pc = "persist" /\ tick'[t].pc # "persist")
            => \A k \in DOMAIN store :
                  store[k].id = Current(t).id
                      => /\ k \in DOMAIN store'
                         /\ store'[k].history = Current(t).history
                         /\ store'[k].last_run_ts = Current(t).last_run_ts

\* C3: every persisted history has at most ten entries in chronological
\* order; a recorded run appends one entry at the end and evicts from the
\* front, and that history is what gets persisted, so after any number of
\* sequential runs the last ten are stored, oldest first
HistoryKeepsLastTen ==
    /\ []HistoryBounded
    /\ [][RunAppendsAndEvicts]_vars
    /\ [][RunStatePersisted]_vars

\* C3, its case: a schedule that held ten runs has run again, the new entry
\* is persisted at the end and the oldest of the ten is gone
HistoryEvictedWitness ==
    \E k \in DOMAIN store :
        /\ Len(store[k].history) = 10
        /\ store[k].history[10].ts >= FirstInstant
        /\ store[k].history[1] = FullHistory[2]
        /\ store[k].history[9] = FullHistory[10]

\* a thread that has fired a schedule fired it for the instant of its tick,
\* from a loaded schedule that is enabled, matches that instant and was not
\* last run in that second
FiredWasDue ==
    \A t \in Tids :
        tick[t].pc = "running"
            => /\ Current(t).enabled
               /\ Matches(Current(t).cron, tick[t].now)
               /\ Current(t).last_run_ts # tick[t].now

\* no schedule is fired twice for the same second
NoDoubleFire ==
    \A f, g \in fires : (f.id = g.id /\ f.sec = g.sec) => f = g

\* C4 as stated: a schedule is fired only if it is enabled, its cron matches
\* the current instant, its task is not mid-run and it was not last run in
\* this second; so no schedule is fired twice for the same second
FiresOnlyDueOncePerSecond ==
    /\ FiredWasDue
    /\ \A t, u \in Tids :
          (t # u /\ tick[t].pc = "running" /\ tick[u].pc \in {"running", "persist"})
              => Current(t).task_id # Current(u).task_id
    /\ NoDoubleFire

\* a run that failed or raised is recorded with ok = false, one that
\* succeeded with ok = true
FailureRecorded ==
    \A t \in Tids :
        (tick[t].pc = "running" /\ tick'[t].pc # "running")
            => LET new == tick'[t].items[tick[t].idx].history
               IN  /\ new # <<>>
                   /\ new[Len(new)].output \in Outcomes
                   /\ new[Len(new)].ok = (new[Len(new)].output = "ok")
                   /\ tick'[t].pc = "persist"

\* the tick thread is never ended by a run: it goes on to persist the
\* result, to the rest of the tick and to its sleep
ThreadSurvives ==
    \A t \in Tids :
        /\ tick[t].pc = "dead" => stopEvent
        /\ tick[t].pc = "persist" => ENABLED TickPersist(t)
        /\ tick[t].pc = "scan" => ENABLED TickScan(t)
        /\ (tick[t].pc = "sleep" /\ clock > tick[t].sleepFrom) => ENABLED TickWake(t)

\* C5: a scheduled run that fails, or whose interpreter raises, is recorded
\* as a history entry with ok = false and is not propagated; the tick thread
\* stays alive and goes on to its next tick
FailedRunIsRecorded ==
    /\ []ThreadSurvives
    /\ [][FailureRecorded]_vars

\* C5, its case: the interpreter raised in a run, the entry with ok = false
\* is persisted and the thread has begun a later tick
RaisedRunWitness ==
    \E k \in DOMAIN store :
        /\ store[k].history # <<>>
        /\ LET e == store[k].history[Len(store[k].history)]
           IN  /\ e.output = "raise"
               /\ ~e.ok
               /\ tick[1].pc = "scan"
               /\ tick[1].now > e.ts

\* a request that is refused leaves schedules.json as it is
RejectedSaveKeepsStore ==
    \A a \in ApiCallers :
        (api[a].pc = "idle" /\ api'[a].pc = "done"
            /\ api'[a].res \in {"no_such_task", "invalid_cron"})
            => store' = store

\* every stored schedule, and every schedule a tick has loaded, has a valid
\* expression
LoadedCronsValid ==
    /\ \A k \in DOMAIN store : IsValidCron(store[k].cron)
    /\ \A t \in Tids : \A k \in DOMAIN tick[t].items : IsValidCron(tick[t].items[k].cron)

\* an accepted request for an id that is stored keeps the last_run_ts and
\* the history stored under the id
EditKeepsRunState ==
    \A a \in ApiCallers :
        (api[a].pc = "upsert" /\ api'[a].pc = "check")
            => \A k \in DOMAIN store :
                  store[k].id = api[a].pl[1].id
                      => /\ store'[k].last_run_ts = store[k].last_run_ts
                         /\ store'[k].history = store[k].history

\* C16: a save whose task does not exist or whose expression is not valid is
\* refused and leaves the stored schedules unchanged, so whatever the tick
\* loop loads has a valid expression, and an accepted edit of a stored
\* schedule keeps its last_run_ts and history
SaveKeepsStoreSound ==
    /\ []LoadedCronsValid
    /\ [][RejectedSaveKeepsStore /\ EditKeepsRunState]_vars

\* C16, the part that holds: refused saves change nothing and only valid
\* expressions are stored or loaded
SaveRefusalsKeepStoreValid ==
    /\ []LoadedCronsValid
    /\ [][RejectedSaveKeepsStore]_vars

\* the entry is in the history, or the history is full of later entries
KeptOrEvicted(entry, h) ==
    \/ \E i \in DOMAIN h : h[i] = entry
    \/ Len(h) = HistoryMax /\ \A i \in DOMAIN h : h[i].ts > entry.ts

\* no step takes an entry out of the stored history of a schedule that stays
\* stored, except by the cap
StoredHistoryKept ==
    \A k \in DOMAIN store, j \in DOMAIN store' :
        store'[j].id = store[k].id
            => \A i \in DOMAIN store[k].history :
                   KeptOrEvicted(store[k].history[i], store'[j].history)

\* C34: a history entry the tick loop has persisted for a schedule is never
\* lost to a concurrent edit: once an API save of the same schedule that ran
\* meanwhile has completed, the stored history still holds the entry, unless
\* the cap of 10 entries has evicted it
HistoryEntryNeverLost == [][StoredHistoryKept]_vars

\* a save of a schedule has completed and the stored history is empty,
\* although the tick loop has recorded a run of it in this second
HistoryEntryLostWitness ==
    /\ store # <<>>
    /\ store[1].id = "s1"
    /\ store[1].history = <<>>
    /\ api["a1"].pc \in {"check", "done"}
    /\ \E f \in fires : f.id = "s1"
    /\ \A t \in Tids : tick[t].pc # "running" /\ tick[t].pc # "persist"

\* a tick thread persists the run state of the schedule it has run
Persisting(t) == tick[t].pc = "persist" /\ tick'[t].pc = "scan"

\* the stored schedules keep their number, order, ids, expressions, enabled
\* flags and task ids; the one with the id of the run gets the run's
\* last_run_ts and history, every other one stays as it is
OnlyRunStateWritten(t) ==
    LET ran == Current(t)
    IN  /\ Len(store') = Len(store)
        /\ \A k \in DOMAIN store :
               /\ store'[k].id = store[k].id
               /\ store'[k].cron = store[k].cron
               /\ store'[k].enabled = store[k].enabled
               /\ store'[k].task_id = store[k].task_id
               /\ store[k].id # ran.id => store'[k] = store[k]
               /\ store[k].id = ran.id
                     => /\ store'[k].last_run_ts = ran.last_run_ts
                        /\ store'[k].history = ran.history

\* C35: recording a run result changes the last_run_ts and the history of
\* the schedule with that id and nothing else: an expression, enabled flag or
\* task id edited in storage during the run stays as edited, the other
\* schedules are unchanged, a schedule deleted during its run is not created
\* again
RunResultWritesRunStateOnly ==
    [][\A t \in Tids : Persisting(t) => OnlyRunStateWritten(t)]_vars

\* a schedule was disabled in storage after it had fired, and the run's
\* result was recorded on the disabled schedule
RunRecordedOnEditedWitness ==
    \E t \in Tids :
        /\ tick[t].pc = "scan"
        /\ tick[t].idx = 2
        /\ tick[t].items[1].enabled
        /\ tick[t].items[1].history # <<>>
        /\ store # <<>>
        /\ store[1].id = tick[t].items[1].id
        /\ ~store[1].enabled
        /\ store[1].history = tick[t].items[1].history
        /\ store[1].last_run_ts = tick[t].now

\* ensure_scheduler_started returns because it found _thread alive
EnsureReturnsOnLiveThread(a) == api[a].pc = "check" /\ api'[a].pc = "done"

\* a tick thread is alive and the stop event is not set: the thread passes
\* the test at the top of its loop
TickingGoesOn == ~stopEvent /\ \E t \in Tids : Alive(tick[t])

\* C37: when ensure_scheduler_started returns, a tick thread is alive and
\* goes on ticking until stop_scheduler is called again, also when the call
\* comes right after a stop_scheduler whose join timed out during a long run
EnsureLeavesTicking ==
    [][\A a \in DOMAIN api : EnsureReturnsOnLiveThread(a) => TickingGoesOn']_vars

\* the tick threads that are alive
AliveTickThreads == {t \in Tids : Alive(tick[t])}

\* C38: at most one tick thread is alive at any time, however calls of
\* ensure_scheduler_started and stop_scheduler interleave
AtMostOneTickThread == Cardinality(AliveTickThreads) <= 1

\* the list holds an autoglm_prompt step, at whatever place
HoldsPromptStep(steps) ==
    \E i \in 1..Len(steps) : steps[i].type = "autoglm_prompt"

\* a run of a task of steps with an autoglm_prompt step goes to
\* ensure_autoglm_running first
BeginEnsuresFirst ==
    (run.pc = "idle" /\ run'.mode = "steps" /\ HoldsPromptStep(run'.steps))
        => run'.pc = "ensure"

\* the run has executed no step: no result, no adb call, no pause
NoStepExecuted == run.results = <<>> /\ run.calls = <<>> /\ run.pauses = <<>>

\* until ensure_autoglm_running has returned no step is executed, and none
\* is when it raises
NoStepBeforeEnsured == (run.mode = "steps" /\ run.stage = "pre") => NoStepExecuted

\* C39: a task of steps that holds an autoglm_prompt step anywhere executes
\* no step at all, the steps before that one included, when the process is
\* not running and cannot be started (no key, or the start fails)
UnstartableRunsNoStep == []NoStepBeforeEnsured /\ [][BeginEnsuresFirst]_vars

\* the start failed for a task whose first step is an adb step and whose
\* second is the autoglm_prompt step: the run raised with nothing executed
UnstartableRaisedWitness ==
    /\ run.pc = "raised"
    /\ run.err = "start_failed"
    /\ run.mode = "steps"
    /\ Len(run.steps) >= 2
    /\ run.steps[1].type = "adb_shell"
    /\ run.steps[2].type = "autoglm_prompt"
    /\ NoStepExecuted

\* a tick thread starts the run of a schedule
Firing(t) == tick[t].pc = "scan" /\ tick'[t].pc = "running"

\* the schedule whose run starts is stored and enabled at that moment
FiredIsStoredEnabled(t) ==
    \E k \in DOMAIN store :
        /\ store[k].id = tick'[t].items[tick'[t].idx].id
        /\ store[k].enabled

\* C36: the tick loop never starts a run for a schedule that is disabled in
\* storage or deleted from it at the moment the run starts, also when an
\* earlier schedule of the same tick took long to run
NeverRunsDisabledOrDeleted ==
    [][\A t \in Tids : Firing(t) => FiredIsStoredEnabled(t)]_vars

\* the second schedule of a tick is running although it was deleted from
\* storage while the first was run
DeletedScheduleRanWitness ==
    \E t \in Tids :
        /\ tick[t].pc = "running"
        /\ tick[t].idx = 2
        /\ \E f \in fires : f.tid = t /\ f.id = tick[t].items[1].id
        /\ \A k \in DOMAIN store : store[k].id # tick[t].items[2].id

\* the start marker start() appends to the log: a line break, then the marker
StartMarker == <<Line("web", 0, ""), Line("web", 0, "started")>>

\* at service start nothing is held; a pid file of an earlier run may exist,
\* and the process it names may be alive
InitSupervisorState ==
    /\ pidFile \in {NoPid, LegacyPid}
    /\ os \in [Pids -> {"free", "alive"}]
    /\ \A p \in Pids : os[p] = "alive" => (p = LegacyPid /\ pidFile = p)
    /\ proc = NoPid
    /\ nextPid = LegacyPid + 1
    /\ stopPc = "idle"
    /\ stopPid = NoPid
    /\ stdin = <<>>
    /\ engineOut = 0
    /\ ret = NoRet

InitSupervisor == InitSupervisorState /\ log = <<>>

\* the scheduler as tasks_runner's import leaves it: the tick thread runs
InitThread ==
    /\ tick = [t \in Tids |-> IF t = 1 THEN [NoThread EXCEPT !.pc = "top"] ELSE NoThread]
    /\ threadRef = 1
    /\ stopEvent = FALSE
    /\ nextTid = 2
    /\ api = [a \in ApiCallers |-> IdleApi]
    /\ nextUuid = 1
    /\ fires = {}
    /\ clock = FirstInstant

InitNoScheduler == InitThread /\ store = <<>>

\* no task is being run, no function has been called
InitNoRun == run = IdleRun /\ invoked = <<>> /\ call = NoCall

Init == InitSupervisor /\ InitNoSessions /\ InitNoScheduler /\ InitNoRun

NextSupervisor ==
    \/ Status
    \/ \E cfgDev \in Serials \cup {""}, online \in SUBSET Serials,
          workdir \in BOOLEAN, popenOk \in BOOLEAN :
          Start(cfgDev, online, workdir, popenOk)
    \/ StopBegin
    \/ StopTerm
    \/ StopWait
    \/ StopKill
    \/ StopCleanup
    \/ \E p \in Pids : ProcExit(p)
    \/ \E text \in Texts, writeOk \in BOOLEAN : SendInput(text, writeOk)
    \/ \E body \in EngineBodies : EngineOutput(body)

Next == NextSupervisor

Spec == Init /\ [][Next]_vars

\* the state a successful start() leaves: the child runs and is held
InitRunningChildState ==
    /\ pidFile = LegacyPid + 1
    /\ os = [p \in Pids |-> IF p = LegacyPid + 1 THEN "alive" ELSE "free"]
    /\ proc = LegacyPid + 1
    /\ nextPid = LegacyPid + 2
    /\ stopPc = "idle"
    /\ stopPid = NoPid
    /\ stdin = <<>>
    /\ engineOut = 0
    /\ ret = NoRet

\* the registry and the log after PreCreated calls of new_session, made one
\* after the other from the log `base`
InitFilledSessions(base) ==
    /\ sessions = [i \in 1..PreCreated |->
                      [sid |-> i, lines |-> <<>>, born |-> Len(base) + i - 1]]
    /\ sessionOffsets = [i \in 1..PreCreated |-> Len(base) + i - 1]
    /\ log = base \o [i \in 1..PreCreated |-> Line("session", i, "started")]
    /\ nextSid = PreCreated + 1
    /\ pendingStarted = {}
    /\ sends = [c \in Callers |-> IdleSend]
    /\ sendCount = 0

\* the lines of the first session and their echo in the log after
\* PriorExchanges sends that send_input refused: the input, then the failure
PriorLines ==
    [i \in 1..(2 * PriorExchanges) |->
        IF i % 2 = 1 THEN [kind |-> "in", text |-> "hi", pos |-> 0]
        ELSE [kind |-> "fail", text |-> "handle_unavailable", pos |-> 0]]
PriorEcho ==
    [i \in 1..(2 * PriorExchanges) |->
        IF i % 2 = 1 THEN Line("session", 1, "hi")
        ELSE Line("session_output", 1, "handle_unavailable")]

\* the registry and the log after PreCreated calls of new_session and, after
\* them, PriorExchanges refused sends on the first session
InitChattedSessions ==
    /\ sessions = [i \in 1..PreCreated |->
                      [sid |-> i, lines |-> IF i = 1 THEN PriorLines ELSE <<>>,
                       born |-> i - 1]]
    /\ sessionOffsets = [i \in 1..PreCreated |-> i - 1]
    /\ log = [i \in 1..PreCreated |-> Line("session", i, "started")] \o PriorEcho
    /\ nextSid = PreCreated + 1
    /\ pendingStarted = {}
    /\ sends = [c \in Callers |-> IdleSend]
    /\ sendCount = 0

InitSessions ==
    /\ \/ InitSupervisorState /\ log = <<>> /\ InitNoSessions
       \/ InitSupervisorState /\ InitChattedSessions
       \/ InitRunningChildState /\ log = StartMarker /\ InitNoSessions
       \/ InitSupervisorState /\ InitFilledSessions(<<>>)
       \/ InitRunningChildState /\ InitFilledSessions(StartMarker)
    /\ InitNoScheduler
    /\ InitNoRun

NextSessions ==
    \/ NewSessionRegister
    \/ \E sid \in 1..MaxCreated : NewSessionLog(sid)
    \/ \E c \in {"c1"}, sid \in SendSids, text \in Texts : SendBegin(c, sid, text)
    \/ \E c \in {"c1"} : SendStatus(c)
    \/ \E c \in {"c1"}, writeOk \in BOOLEAN : SendWrite(c, writeOk)
    \/ \E c \in {"c1"} : SendPoll(c)
    \/ \E c \in {"c1"} : SendGiveUp(c)
    \/ \E c \in {"c1"} : SendCommit(c)
    \/ \E c \in {"c1"} : SendLog(c)
    \/ \E c \in {"c1"} : SendReturn(c)
    \/ \E sid \in SendSids : GetLog(sid)
    \/ \E p \in Pids : ProcExit(p)
    \/ \E body \in EngineBodies : EngineOutput(body)

SpecSessions == InitSessions /\ [][NextSessions]_vars

\* what schedules.json may hold at service start
InitStores ==
    { <<Sched("s1", "t1", EverySecond, TRUE, 0, <<>>),
        Sched("s2", "t1", EverySecond, TRUE, 0, <<>>)>>,
      <<Sched("s1", "t1", EvenSeconds, TRUE, HistoryMax, FullHistory)>> }

\* the requests api_save_schedule gets
SavePayloads ==
    { Sched("s1", "t1", EverySecond, FALSE, 0, <<>>),
      Sched("", "t2", EvenSeconds, TRUE, 0, <<>>),
      Sched("s1", "t9", EverySecond, TRUE, 0, <<>>),
      Sched("s1", "t1", BadCron, TRUE, 0, <<>>) }

InitSched ==
    /\ InitSupervisorState /\ log = <<>>
    /\ InitNoSessions
    /\ InitThread
    /\ InitNoRun
    /\ store \in InitStores

\* the service as it runs: the one tick thread, the schedule requests
NextSched ==
    \/ \E t \in Tids : TickTop(t)
    \/ \E t \in Tids : TickScan(t)
    \/ \E t \in Tids, outcome \in Outcomes : RunEnd(t, outcome)
    \/ \E t \in Tids : TickPersist(t)
    \/ \E t \in Tids : TickWake(t)
    \/ ClockTick
    \/ \E pl \in SavePayloads : ApiSaveRead("a1", pl)
    \/ ApiSaveUpsert("a1")
    \/ EnsureCheck("a1")
    \/ \E id \in {"s1", "s2"} : ApiDelete(id)

SpecSched == InitSched /\ [][NextSched]_vars

InitRace ==
    /\ InitSupervisorState /\ log = <<>>
    /\ InitNoSessions
    /\ InitThread
    /\ InitNoRun
    /\ store = <<Sched("s1", "t1", EverySecond, TRUE, 0, <<>>),
                 Sched("s2", "t1", EverySecond, TRUE, 0, <<>>)>>

\* the scheduler stopped and started again by concurrent requests
NextRace ==
    \/ \E t \in Tids : TickTop(t)
    \/ \E t \in Tids : TickScan(t)
    \/ \E t \in Tids, outcome \in {"ok", "raise"} : RunEnd(t, outcome)
    \/ \E t \in Tids : TickPersist(t)
    \/ \E t \in Tids : TickWake(t)
    \/ ClockTick
    \/ StopScheduler
    \/ \E a \in ApiCallers : ApiSaveRead(a, Sched("s1", "t1", EverySecond, TRUE, 0, <<>>))
    \/ \E a \in ApiCallers : ApiSaveUpsert(a)
    \/ \E a \in ApiCallers : EnsureCheck(a)
    \/ \E a \in ApiCallers : EnsureClear(a)
    \/ \E a \in ApiCallers : EnsureCreate(a)
    \/ \E a \in ApiCallers : EnsureStart(a)

SpecRace == InitRace /\ [][NextRace]_vars

InitInterp ==
    /\ \/ InitSupervisorState /\ log = <<>>
       \/ InitRunningChildState /\ log = StartMarker
    /\ InitNoSessions
    /\ InitNoScheduler
    /\ InitNoRun

\* a run of a task, the external process and the steps of a stop() under way
NextInterp ==
    \/ \E tid \in TaskIds \cup {"t9"}, def \in TaskDefs, cfgDev \in {"", "d1"},
          online \in OnlineLists : RunBegin(tid, def, cfgDev, online)
    \/ \E keyOk \in BOOLEAN : RunEnsureStatus(keyOk)
    \/ \E cfgDev \in {"", "d1"}, online \in SUBSET Serials,
          workdir \in BOOLEAN, popenOk \in BOOLEAN :
          RunEnsureStart(cfgDev, online, workdir, popenOk)
    \/ \E writeOk \in BOOLEAN : RunSend(writeOk)
    \/ RunHealStop
    \/ RunHealStopped
    \/ RunCollect
    \/ RunCollectTimeout
    \/ RunPromptFinish
    \/ \E devOk \in BOOLEAN : RunStep(devOk)
    \/ RunReturn
    \/ StopTerm
    \/ StopWait
    \/ StopKill
    \/ StopCleanup
    \/ \E p \in Pids : ProcExit(p)
    \/ \E body \in PromptBodies : EngineOutput(body)

SpecInterp == InitInterp /\ [][NextInterp]_vars

\* the logs tail_log is called on: the file is absent or empty, or holds
\* some lines
InitTail ==
    /\ InitSupervisorState
    /\ \E n \in 0..MaxLogLen : log = [i \in 1..n |-> Line("engine", 0, "out")]
    /\ InitNoSessions
    /\ InitNoScheduler
    /\ InitNoRun

NextTail ==
    \E offset \in (0 - 1)..(MaxLogLen + 2), maxBytes \in 1..MaxTailBytes :
        TailLog(offset, maxBytes)

SpecTail == InitTail /\ [][NextTail]_vars

(***************************************************************************)
(* The cron functions on their own: the arguments are drawn in the first   *)
(* state and one of the functions is applied to them                       *)
(***************************************************************************)
\* the expressions the cron functions are given
CronInputs ==
    {EverySecond, EvenSeconds, EveryFiveMinutes, SundayNoon0, SundayNoon7,
     FebruaryThirtyFirst, BadCron, FiveFields, SevenFields, ValueOutside,
     RangeOutside, RangePartlyOutside, ListPartlyOutside, DayZero, ZeroStep,
     ListWithBad, OnlyComma}

InitCron ==
    /\ InitSupervisorState
    /\ log = <<>>
    /\ InitNoSessions /\ InitNoScheduler
    /\ run = IdleRun /\ invoked = <<>>
    /\ \E cron \in CronInputs, now \in Instants, maxScan \in 1..MaxScan :
           call = CronArgs(cron, now, maxScan)

NextCron ==
    \/ NextRun
    \/ MatchCall
    \/ ValidCall

SpecCron == InitCron /\ [][NextCron]_vars


(***************************************************************************)
(* Two callers sending on one session while the log may be truncated       *)
(***************************************************************************)
\* the process runs, one session was created after the start marker, and a
\* first send on it has read the session's offset
InitOffsets ==
    /\ InitRunningChildState
    /\ log = Append(StartMarker, Line("session", 1, "started"))
    /\ sessions = <<[sid |-> 1, lines |-> <<>>, born |-> Len(StartMarker)]>>
    /\ sessionOffsets = [i \in {1} |-> Len(StartMarker)]
    /\ nextSid = 2
    /\ pendingStarted = {}
    /\ sends = [c \in Callers |->
                   IF c = "c2"
                   THEN [sid |-> 1, out |-> <<>>, offset |-> Len(StartMarker),
                         text |-> "hi", pc |-> "status", wrote |-> 0]
                   ELSE IdleSend]
    /\ sendCount = 0
    /\ InitNoScheduler
    /\ InitNoRun

NextOffsets ==
    \/ \E c \in Callers, text \in Texts : SendBegin(c, 1, text)
    \/ \E c \in Callers : SendStatus(c)
    \/ \E c \in Callers, writeOk \in BOOLEAN : SendWrite(c, writeOk)
    \/ \E c \in Callers : SendPoll(c)
    \/ \E c \in Callers : SendGiveUp(c)
    \/ \E c \in Callers : SendCommit(c)
    \/ \E c \in Callers : SendLog(c)
    \/ \E c \in Callers : SendReturn(c)
    \/ \E body \in EngineBodies : EngineOutput(body)
    \/ LogTruncated

SpecOffsets == InitOffsets /\ [][NextOffsets]_vars


(***************************************************************************)
(* A session and a run of a prompt task using the process at once          *)
(***************************************************************************)
\* the process runs and one session was created after the start marker
InitShared ==
    /\ InitRunningChildState
    /\ log = Append(StartMarker, Line("session", 1, "started"))
    /\ sessions = <<[sid |-> 1, lines |-> <<>>, born |-> Len(StartMarker)]>>
    /\ sessionOffsets = [i \in {1} |-> Len(StartMarker)]
    /\ nextSid = 2
    /\ pendingStarted = {}
    /\ sends = [c \in Callers |-> IdleSend]
    /\ sendCount = 0
    /\ InitNoScheduler
    /\ InitNoRun

\* the one send made is the first on its session: its first poll finds the
\* line of the session's start to read, so the send never gives up
NextShared ==
    \/ \E tid \in TaskIds, online \in OnlineLists :
          RunBegin(tid, [prompt |-> "do", steps |-> <<>>], "", online)
    \/ \E keyOk \in BOOLEAN : RunEnsureStatus(keyOk)
    \/ \E writeOk \in BOOLEAN : RunSend(writeOk)
    \/ RunCollect
    \/ RunCollectTimeout
    \/ RunPromptFinish
    \/ \E text \in Texts \cup {ReadyMarker} : SendBegin("c1", 1, text)
    \/ SendStatus("c1")
    \/ \E writeOk \in BOOLEAN : SendWrite("c1", writeOk)
    \/ SendPoll("c1")
    \/ SendCommit("c1")
    \/ SendLog("c1")
    \/ SendReturn("c1")
    \/ \E body \in PromptBodies : EngineOutput(body)

SpecShared == InitShared /\ [][NextShared]_vars


(***************************************************************************)
(* _format on its own: the value and the parameters are drawn in the first *)
(* state and the function is applied to them                               *)
(***************************************************************************)
\* the characters of the templates, and the templates
TemplateChars == {"a", "n", "{", "}"}
Templates == UNION {[1..k -> TemplateChars] : k \in 0..MaxTemplateLen}

\* the values _format is given: strings, and numbers
FormatValues == {Str(t) : t \in Templates} \cup {Num(0), Num(5)}

\* the parameter mappings: none, one for n, one whose value is a brace, two
FormatParams ==
    {NoParams,
     <<"n">> :> <<"w">>,
     <<"n">> :> <<"{">>,
     (<<"n">> :> <<"w">>) @@ (<<"a">> :> <<>>)}

InitFormat ==
    /\ InitSupervisorState
    /\ log = <<>>
    /\ InitNoSessions /\ InitNoScheduler
    /\ run = IdleRun /\ invoked = <<>>
    /\ \E value \in FormatValues, params \in FormatParams :
           call = FormatArgs(value, params)

NextFormat == FormatCall

SpecFormat == InitFormat /\ [][NextFormat]_vars

(***************************************************************************)
(* The supervisor's callers together: start, stop, status and send_input   *)
(* calls while the interpreter dispatches a prompt and starts the process  *)
(* itself                                                                  *)
(***************************************************************************)
InitSupervised ==
    /\ \/ InitSupervisorState /\ log = <<>>
       \/ InitRunningChildState /\ log = StartMarker
    /\ InitNoSessions
    /\ InitNoScheduler
    /\ InitNoRun

NextSupervised ==
    \/ Status
    \/ \E online \in SUBSET Serials, workdir \in BOOLEAN, popenOk \in BOOLEAN :
          Start("", online, workdir, popenOk)
    \/ StopBegin
    \/ StopTerm
    \/ StopWait
    \/ StopKill
    \/ StopCleanup
    \/ \E p \in Pids : ProcExit(p)
    \/ \E text \in Texts, writeOk \in BOOLEAN : SendInput(text, writeOk)
    \/ RunBegin("t1", [prompt |-> "do", steps |-> <<>>], "", <<"d2">>)
    \/ \E keyOk \in BOOLEAN : RunEnsureStatus(keyOk)
    \/ \E online \in SUBSET Serials, workdir \in BOOLEAN, popenOk \in BOOLEAN :
          RunEnsureStart("", online, workdir, popenOk)
    \/ \E writeOk \in BOOLEAN : RunSend(writeOk)
    \/ RunHealStop
    \/ RunHealStopped
    \/ RunCollectTimeout
    \/ RunPromptFinish

SpecSupervised == InitSupervised /\ [][NextSupervised]_vars

====
